---- MODULE Spec2Model ----
(***************************************************************************)
(* ScholarFlow: the plan-and-execute research workflow.                    *)
(*                                                                         *)
(* A workflow state (agents/state.py) is threaded through three nodes      *)
(* (planner, researcher, writer) chosen by the router route_next_step      *)
(* (agents/graph.py).  Two drivers run the graph: the streaming driver     *)
(* run_research_step_by_step (routers/websocket.py), which merges every    *)
(* node update by hand and persists it in ws_sessions, and the             *)
(* request/response handlers start_research / next_step                    *)
(* (routers/research.py), which call graph.invoke and keep the result in   *)
(* sessions.                                                               *)
(*                                                                         *)
(* Python dicts are functions with string domains: a partial update is a   *)
(* record holding only the keys the node returned.                         *)
(***************************************************************************)
EXTENDS Integers, Sequences, FiniteSets, TLC

\* ------------------------------------------------------------------ bounds

\* Longest JSON array the completion stub returns (so the longest plan).
MaxPlan == 2

\* Longest completion text, in lines.
MaxLines == 3

\* Most graph.invoke calls of one request/response session.
MaxInvokes == 2

\* The most chunks a call of add_documents is given.
MaxChunks == 2

\* ------------------------------------------------------- program constants

\* arxiv_searcher.search(current_question, max_results=3)
SEARCH_MAX_RESULTS == 3

\* ---------------------------------------------------------------- helpers

\* Python's None (error, report).
None == "<None>"

\* The one session id of a behaviour (uuid4 in the code).
SID == "sid"

Queries == {"Q1", "Q2"}

Min(a, b) == IF a < b THEN a ELSE b

IsPrefix(s, t) == Len(s) <= Len(t) /\ SubSeq(t, 1, Len(s)) = s

\* dict.get(key, default)
Get(d, k, default) == IF k \in DOMAIN d THEN d[k] ELSE default

\* state.get("is_complete", False)
IsComplete(state) == Get(state, "is_complete", FALSE)

\* state.get("documents", [])
Documents(state) == Get(state, "documents", << >>)

\* {**d, **e}: e's keys win.
DictMerge(d, e) == [k \in DOMAIN d \cup DOMAIN e |-> IF k \in DOMAIN e THEN e[k] ELSE d[k]]

\* ----------------------------------------------------------------- state.py

StatusValues == {"planning", "researching", "reading", "writing", "completed", "error"}

\* Annotated[..., operator.add] channels of ResearchState.
ReducerKeys == {"messages", "documents", "logs"}

create_initial_state(session_id, q) ==
    [ messages           |-> << >>,
      plan               |-> << >>,
      documents          |-> << >>,
      current_task_index |-> 0,
      is_complete        |-> FALSE,
      status             |-> "planning",
      logs               |-> << "Starting research session" >>,
      session_id         |-> session_id,
      original_query     |-> q,
      error              |-> None ]

\* ----------------------------------------------------------------- graph.py

\* Mutant: the plan is looked at before completion.
route_next_step_plan_first(state) ==
    IF Len(Get(state, "plan", << >>)) = 0 THEN "planner"
    ELSE IF Get(state, "is_complete", FALSE) THEN "end"
    ELSE IF Get(state, "status", None) = "error" THEN "end"
    ELSE IF Get(state, "current_task_index", 0) < Len(Get(state, "plan", << >>))
         THEN "researcher"
    ELSE "writer"

\* Mutant: the error status is looked at after the plan.
route_next_step_error_late(state) ==
    IF Get(state, "is_complete", FALSE) THEN "end"
    ELSE IF Len(Get(state, "plan", << >>)) = 0 THEN "planner"
    ELSE IF Get(state, "status", None) = "error" THEN "end"
    ELSE IF Get(state, "current_task_index", 0) < Len(Get(state, "plan", << >>))
         THEN "researcher"
    ELSE "writer"

route_next_step(state) ==
    IF Get(state, "is_complete", FALSE) THEN "end"
    ELSE IF Get(state, "status", None) = "error" THEN "end"
    ELSE IF Len(Get(state, "plan", << >>)) = 0 THEN "planner"
    ELSE IF Get(state, "current_task_index", 0) < Len(Get(state, "plan", << >>))
         THEN "researcher"
    ELSE "writer"

\* ------------------------------------------------------------- planner.py

(* A completion text is a sequence of lines.  A line is a markdown fence     *)
(* (it starts with three backticks), a blank line, prose, or the text of one *)
(* JSON value.  JSON values are arrays of items, or a non-array (an object). *)
StringItem == [t |-> "string", s |-> "A"]
NumberItem == [t |-> "number", n |-> 1]

SeqsUpTo(S, n) == UNION { [1..k -> S] : k \in 0..n }

\* The arrays the completion stub returns: up to MaxPlan items, a string first
\* and then numbers and strings in turn.
JsonArrays ==
    { [ t |-> "array",
        items |-> [ i \in 1..k |-> IF i % 2 = 1 THEN StringItem ELSE NumberItem ] ] :
        k \in 0..MaxPlan }

JsonValues == JsonArrays \cup { [t |-> "object"] }

FenceLine == [kind |-> "fence"]
BlankLine == [kind |-> "blank"]
ProseLine == [kind |-> "prose"]
JsonLine(j) == [kind |-> "json", json |-> j]

LineKinds == { "fence", "blank", "prose", "json" }

\* The texts the completion returns: every sequence of at most MaxLines lines.
\* The JSON lines of one text hold the same value (a second value makes the
\* text unparseable whatever it is).
CompletionTexts ==
    { [ i \in DOMAIN shape |->
          IF shape[i] = "json" THEN JsonLine(j) ELSE [kind |-> shape[i]] ] :
        shape \in SeqsUpTo(LineKinds, MaxLines), j \in JsonValues }

\* What completion() does: raise, or return a text.
Raises == [raises |-> TRUE, text |-> << >>]
Returns(text) == [raises |-> FALSE, text |-> text]

CompletionOutcomes == { Raises } \cup { Returns(t) : t \in CompletionTexts }

RECURSIVE LStrip(_)
LStrip(text) ==
    IF text # << >> /\ Head(text).kind = "blank" THEN LStrip(Tail(text)) ELSE text

RECURSIVE RStrip(_)
RStrip(text) ==
    IF text # << >> /\ text[Len(text)].kind = "blank"
    THEN RStrip(SubSeq(text, 1, Len(text) - 1)) ELSE text

\* str.strip(): leading and trailing whitespace (here: blank lines) go.
Strip(text) == RStrip(LStrip(text))

\* cleaned_response.startswith("```")
StartsWithFence(text) == text # << >> /\ Head(text).kind = "fence"

\* "\n".join(line for line in lines if not line.startswith("```"))
DropFences(text) == SelectSeq(text, LAMBDA l : l.kind # "fence")

\* json.loads: whitespace around one JSON value parses; anything else (no
\* value, prose, a fence left in, a second value) is a JSONDecodeError.
JsonParses(text) ==
    /\ \A i \in 1..Len(text) : text[i].kind \in {"json", "blank"}
    /\ Cardinality({ i \in 1..Len(text) : text[i].kind = "json" }) = 1

JsonLoads(text) == text[CHOOSE i \in 1..Len(text) : text[i].kind = "json"].json

\* str(item): a string is itself, a number its decimal text.
Str(item) == IF item.t = "string" THEN item.s ELSE ToString(item.n)

CleanResponse(response) ==
    IF StartsWithFence(Strip(response)) THEN DropFences(Strip(response)) ELSE Strip(response)

\* Mutant: the plan comes out in reverse order.
PlannerSuccess_reversed(plan) ==
    [ plan               |-> [ i \in 1..Len(plan) |-> plan[Len(plan) + 1 - i] ],
      current_task_index |-> 0,
      status             |-> "researching",
      logs               |-> << "Created research plan" >> ]

PlannerSuccess(plan) ==
    [ plan               |-> plan,
      current_task_index |-> 0,
      status             |-> "researching",
      logs               |-> << "Created research plan" >> ]

\* Mutant: an unparseable plan is reported as an error.
PlannerFallback_error(query) ==
    [ status |-> "error",
      error  |-> "invalid JSON",
      logs   |-> << "Planning failed" >> ]

PlannerFallback(query) ==
    [ plan               |-> << query >>,
      current_task_index |-> 0,
      status             |-> "researching",
      logs               |-> << "Could not parse plan, using original query" >> ]

\* Mutant: the error exit hands the router a plan as well.
PlannerError_with_plan(msg) ==
    [ plan               |-> << msg >>,
      current_task_index |-> 0,
      status             |-> "error",
      error              |-> msg,
      logs               |-> << "Planning failed" >> ]

\* Mutant: the except branch leaves the status at planning, for another try.
PlannerError_retry(msg) ==
    [ status |-> "planning",
      error  |-> msg,
      logs   |-> << "Planning failed" >> ]

\* The exit of the generic except branch: status error, error = str(e), no plan.
PlannerError(msg) ==
    [ status |-> "error",
      error  |-> msg,
      logs   |-> << "Planning failed" >> ]

\* Mutant: a state that has a plan already is not planned again.
plan_research_keeps_plan(state, outcome) ==
    IF state.plan # << >> THEN [ status |-> "researching", logs |-> << "Plan exists" >> ]
    ELSE IF outcome.raises THEN PlannerError("completion raised")
    ELSE LET cleaned == CleanResponse(outcome.text) IN
         IF ~JsonParses(cleaned) THEN PlannerFallback(state.original_query)
         ELSE LET plan == JsonLoads(cleaned) IN
              IF plan.t # "array" THEN PlannerError("Plan must be a list")
              ELSE IF Len(plan.items) < 1
                   THEN PlannerError("Plan must have at least one question")
              ELSE PlannerSuccess([i \in 1..Len(plan.items) |-> Str(plan.items[i])])

plan_research(state, outcome) ==
    IF outcome.raises THEN PlannerError("completion raised")
    ELSE LET cleaned == CleanResponse(outcome.text) IN
         IF ~JsonParses(cleaned) THEN PlannerFallback(state.original_query)
         ELSE LET plan == JsonLoads(cleaned) IN
              IF plan.t # "array" THEN PlannerError("Plan must be a list")
              ELSE IF Len(plan.items) < 1
                   THEN PlannerError("Plan must have at least one question")
              ELSE PlannerSuccess([i \in 1..Len(plan.items) |-> Str(plan.items[i])])

\* ---------------------------------------------------------- researcher.py

\* The search result for a question: its papers in rank order.
Paper(question, rank) == [question |-> question, rank |-> rank]

SearchResult(question, n) == [r \in 1..n |-> Paper(question, r)]

\* What arxiv_searcher.search does: raise, or return n papers.
SearchOutcomes ==
    { [raises |-> TRUE, n |-> 0] } \cup { [raises |-> FALSE, n |-> n] : n \in 0..SEARCH_MAX_RESULTS }

\* What happens to a paper if it is processed: each of download_and_parse and the
\* summarizing completion may raise.
Fates == { "ok", "download raises", "summarize raises" }

FateMaps == [1..SEARCH_MAX_RESULTS -> Fates]

DocumentInfo(paper) ==
    [ title    |-> << paper.question, paper.rank >>,
      summary  |-> "summary",
      arxiv_id |-> << paper.question, paper.rank >> ]

\* Mutant: every search result is processed.
PapersToProcess_all(lightweight) == SEARCH_MAX_RESULTS

\* papers_to_process = 1 if settings.LIGHTWEIGHT_MODE else 2
PapersToProcess(lightweight) == IF lightweight THEN 1 ELSE 2

\* Mutant: the first failure ends the loop (break for continue).
RECURSIVE ProcessPapers_abort(_, _, _)
ProcessPapers_abort(papers, fate, acc) ==
    IF papers = << >> THEN acc
    ELSE LET paper == Head(papers) IN
         IF fate[paper.rank] = "ok"
         THEN ProcessPapers_abort(Tail(papers), fate,
                  [ documents |-> Append(acc.documents, DocumentInfo(paper)),
                    logs      |-> acc.logs \o << "Processing", "Processed" >> ])
         ELSE [ documents |-> acc.documents,
                logs      |-> acc.logs \o << "Processing", "Failed to process paper" >> ]

\* The for loop over papers[:papers_to_process]: a paper whose processing raises
\* is logged and skipped (continue), the others are appended in order.
RECURSIVE ProcessPapers(_, _, _)
ProcessPapers(papers, fate, acc) ==
    IF papers = << >> THEN acc
    ELSE LET paper == Head(papers) IN
         IF fate[paper.rank] = "ok"
         THEN ProcessPapers(Tail(papers), fate,
                  [ documents |-> Append(acc.documents, DocumentInfo(paper)),
                    logs      |-> acc.logs \o << "Processing", "Processed" >> ])
         ELSE ProcessPapers(Tail(papers), fate,
                  [ documents |-> acc.documents,
                    logs      |-> acc.logs \o << "Processing", "Failed to process paper" >> ])

\* Mutant: the last question is taken for one that has successors (> for >=).
StatusAfter_late(next_idx, plan) == IF next_idx > Len(plan) THEN "writing" ELSE "researching"

\* "writing" if is_last_question else "researching"
StatusAfter(next_idx, plan) == IF next_idx >= Len(plan) THEN "writing" ELSE "researching"

\* Mutant: a search without results is reported as a failure of the session.
ResearchMiss_error(current_idx, plan) ==
    [ current_task_index |-> current_idx + 1,
      status             |-> "error",
      error              |-> "No papers found",
      logs               |-> << "Researching", "Found papers", "No papers found" >> ]

\* Mutant: the zero-results exit leaves the index where it was.
ResearchMiss_stays(current_idx, plan) ==
    [ current_task_index |-> current_idx,
      status             |-> StatusAfter(current_idx, plan),
      logs               |-> << "Researching", "Found papers", "No papers found" >> ]

\* The zero-results exit.
ResearchMiss(current_idx, plan) ==
    [ current_task_index |-> current_idx + 1,
      status             |-> StatusAfter(current_idx + 1, plan),
      logs               |-> << "Researching", "Found papers", "No papers found" >> ]

\* Mutant: the normal exit advances past the next question too.
ResearchDone_skips(current_idx, plan, processed) ==
    [ documents          |-> processed.documents,
      current_task_index |-> current_idx + 2,
      status             |-> StatusAfter(current_idx + 2, plan),
      logs               |-> processed.logs ]

\* The exit after the papers were processed.
\* Mutant: the update carries the question that was searched as the query.
ResearchDone_sets_query(current_idx, plan, processed) ==
    [ documents          |-> processed.documents,
      original_query     |-> plan[current_idx + 1],
      current_task_index |-> current_idx + 1,
      status             |-> StatusAfter(current_idx + 1, plan),
      logs               |-> processed.logs ]

ResearchDone(current_idx, plan, processed) ==
    [ documents          |-> processed.documents,
      current_task_index |-> current_idx + 1,
      status             |-> StatusAfter(current_idx + 1, plan),
      logs               |-> processed.logs ]

\* Mutant: the exception exit ends the session with an error.
ResearchFailed_error(current_idx, plan, logs) ==
    [ current_task_index |-> current_idx + 1,
      status             |-> "error",
      error              |-> "search raised",
      logs               |-> Append(logs, "Error researching question") ]

\* Mutant: the exception exit leaves the index where it was.
ResearchFailed_stays(current_idx, plan, logs) ==
    [ current_task_index |-> current_idx,
      status             |-> StatusAfter(current_idx, plan),
      logs               |-> Append(logs, "Error researching question") ]

\* The exit of the outer except branch: the question is skipped.
ResearchFailed(current_idx, plan, logs) ==
    [ current_task_index |-> current_idx + 1,
      status             |-> StatusAfter(current_idx + 1, plan),
      logs               |-> Append(logs, "Error researching question") ]

\* Mutant: the safety exit counts as a question done and advances the index.
research_topic_exit_advances(state, lightweight, search, fate) ==
    LET current_idx == Get(state, "current_task_index", 0)
        plan        == Get(state, "plan", << >>)
    IN  IF current_idx >= Len(plan)
        THEN [ status             |-> "writing",
               current_task_index |-> current_idx + 1,
               logs               |-> << "All research questions completed" >> ]
        ELSE
        LET papers    == SearchResult(plan[current_idx + 1], search.n)
            processed ==
                ProcessPapers(SubSeq(papers, 1, Min(Len(papers), PapersToProcess(lightweight))),
                              fate,
                              [ documents |-> << >>,
                                logs      |-> << "Researching", "Found papers" >> ])
        IN  IF search.raises THEN ResearchFailed(current_idx, plan, << "Researching" >>)
            ELSE IF papers = << >> THEN ResearchMiss(current_idx, plan)
            ELSE ResearchDone(current_idx, plan, processed)

research_topic(state, lightweight, search, fate) ==
    LET current_idx == Get(state, "current_task_index", 0)
        plan        == Get(state, "plan", << >>)
    IN  IF current_idx >= Len(plan)
        THEN [ status |-> "writing",
               logs   |-> << "All research questions completed" >> ]
        ELSE
        LET current_question == plan[current_idx + 1]
            papers           == SearchResult(current_question, search.n)
            processed        ==
                ProcessPapers(SubSeq(papers, 1, Min(Len(papers), PapersToProcess(lightweight))),
                              fate,
                              [ documents |-> << >>,
                                logs      |-> << "Researching", "Found papers" >> ])
        IN  IF search.raises THEN ResearchFailed(current_idx, plan, << "Researching" >>)
            ELSE IF papers = << >> THEN ResearchMiss(current_idx, plan)
            ELSE ResearchDone(current_idx, plan, processed)

\* -------------------------------------------------------------- writer.py

LlmReport == [kind |-> "llm", titles |-> << >>]

\* The fallback report: a header, then one section per document with its title.
FallbackReport(documents) ==
    [kind |-> "fallback", titles |-> [i \in 1..Len(documents) |-> documents[i].title]]

ContextLog(skip_vector_store) ==
    IF skip_vector_store THEN "Vector store disabled" ELSE "Retrieved chunks"

\* What the collaborators of the Write step do: both return ("ok"), the
\* smart-tier completion raises ("raises"), or the vector store cannot be
\* brought up for the retrieval ("retrieval raises"; it is only used when
\* SKIP_VECTOR_STORE is off).
SynthesisOutcomes == { "ok", "raises", "retrieval raises" }

\* Mutant: the message of a successful synthesis is left out of the update.
WriteSuccess_no_message(report, logs) ==
    [ is_complete |-> TRUE,
      status      |-> "completed",
      logs        |-> Append(logs, "Research report completed") ]

\* The return of the try block.
WriteSuccess(report, logs) ==
    [ messages    |-> << [role |-> "assistant", content |-> report] >>,
      is_complete |-> TRUE,
      status      |-> "completed",
      logs        |-> Append(logs, "Research report completed") ]

\* Mutant: the fallback report covers the first document only.
WriteFallback_first_only(documents, logs) ==
    [ messages    |-> << [role |-> "assistant",
                          content |-> FallbackReport(SubSeq(documents, 1, 1))] >>,
      is_complete |-> TRUE,
      status      |-> "completed",
      error       |-> "Failed to generate report",
      logs        |-> Append(logs, "Used fallback report") ]

\* The except branch with documents: the fallback report.
WriteFallback(documents, logs) ==
    [ messages    |-> << [role |-> "assistant", content |-> FallbackReport(documents)] >>,
      is_complete |-> TRUE,
      status      |-> "completed",
      error       |-> "Failed to generate report",
      logs        |-> Append(logs, "Used fallback report") ]

\* Mutant: without documents the failure is passed off as a completion.
WriteFailed_completed(logs) ==
    [ messages    |-> << [role |-> "assistant", content |-> FallbackReport(<< >>)] >>,
      is_complete |-> TRUE,
      status      |-> "completed",
      error       |-> "Failed to generate report",
      logs        |-> Append(logs, "Report generation failed") ]

\* The except branch without documents.
WriteFailed(logs) ==
    [ is_complete |-> TRUE,
      status      |-> "error",
      error       |-> "Failed to generate report",
      logs        |-> Append(logs, "Report generation failed") ]

write_report(state, skip_vector_store, synthesis) ==
    LET documents == state.documents
        retrieval_raised == ~skip_vector_store /\ synthesis = "retrieval raises"
        logs == IF retrieval_raised
                THEN << "Synthesizing research report" >>
                ELSE << "Synthesizing research report", ContextLog(skip_vector_store),
                        "Generating final report" >>
    IN  IF ~retrieval_raised /\ synthesis # "raises" THEN WriteSuccess(LlmReport, logs)
        ELSE IF documents # << >> THEN WriteFallback(documents, logs)
        ELSE WriteFailed(logs)

\* --------------------------------------------------------------- chroma.py

\* vector_store.query(query, n_results=10) in write_report
N_RESULTS == 10

\* parsed["chunks"] of a paper: its text in two parts.
ChunksOf(arxiv_id) == << [paper |-> arxiv_id, part |-> 0], [paper |-> arxiv_id, part |-> 1] >>

\* Mutant: the chunks are written without the look for the document's first
\* chunk, the new ones over the old.
add_documents_upsert(coll, chunks, metadata, doc_id) ==
    { e \in coll : ~(e.metadata.doc_id = doc_id /\ e.metadata.chunk_index < Len(chunks)) }
    \cup { [ id       |-> << doc_id, i >>,
             document |-> chunks[i + 1],
             metadata |-> [ source_url  |-> metadata.source_url,
                            title       |-> metadata.title,
                            doc_id      |-> doc_id,
                            chunk_index |-> i ] ] : i \in 0..(Len(chunks) - 1) }

\* VectorStore.add_documents, the collection it leaves: nothing is added
\* without chunks or when the document's first chunk id is there already;
\* else one entry per chunk, with id "<doc_id>_chunk_<i>".
add_documents(coll, chunks, metadata, doc_id) ==
    IF chunks = << >> THEN coll
    ELSE IF \E e \in coll : e.id = << doc_id, 0 >> THEN coll
    ELSE coll \cup { [ id       |-> << doc_id, i >>,
                       document |-> chunks[i + 1],
                       metadata |-> [ source_url  |-> metadata.source_url,
                                      title       |-> metadata.title,
                                      doc_id      |-> doc_id,
                                      chunk_index |-> i ] ] : i \in 0..(Len(chunks) - 1) }

\* VectorStore.add_documents, the number it returns: the chunks added.
add_documents_returns(coll, chunks, doc_id) ==
    IF chunks = << >> THEN 0
    ELSE IF \E e \in coll : e.id = << doc_id, 0 >> THEN 0
    ELSE Len(chunks)

\* VectorStore.delete_document, the collection it leaves: every chunk of the
\* document is gone.
delete_document(coll, doc_id) == { e \in coll : e.metadata.doc_id # doc_id }

\* VectorStore.query without a filter, the results it can return: none from
\* an empty collection, else the min(n_results, count) entries the embedding
\* ranks nearest to the query text, whichever those are; the collection is
\* the one collection of the process, whoever added to it.
vector_store_query(coll, query_text, n_results) ==
    { found \in SUBSET coll : Cardinality(found) = Min(n_results, Cardinality(coll)) }

\* research_topic's calls of add_documents: one for each paper that was
\* parsed and summarized, unless SKIP_VECTOR_STORE is set.
RECURSIVE IndexPapers(_, _, _)
IndexPapers(coll, skip_vector_store, documents) ==
    IF skip_vector_store \/ documents = << >> THEN coll
    ELSE IndexPapers(add_documents(coll, ChunksOf(Head(documents).arxiv_id),
                                   [ source_url |-> Head(documents).arxiv_id,
                                     title      |-> Head(documents).title,
                                     arxiv_id   |-> Head(documents).arxiv_id ],
                                   Head(documents).arxiv_id),
                     skip_vector_store, Tail(documents))

\* ------------------------------------------------- the compiled StateGraph

\* Mutant: a schema without reducers, every key of an update replaces.
ApplyUpdate_no_reducers(state, update) ==
    [ k \in DOMAIN state \cup DOMAIN update |->
        IF k \in DOMAIN update THEN update[k] ELSE state[k] ]

\* How the graph folds a node's update into its channels: the Annotated
\* operator.add channels concatenate, every other channel takes the last value.
ApplyUpdate(state, update) ==
    [ k \in DOMAIN state \cup DOMAIN update |->
        IF k \notin DOMAIN update THEN state[k]
        ELSE IF k \in ReducerKeys /\ k \in DOMAIN state THEN state[k] \o update[k]
        ELSE update[k] ]

\* The edges of create_research_graph.  The planner's conditional edge maps all
\* four router answers; the researcher's has no "planner" entry; the writer
\* goes to END.
PlannerEdges == [planner |-> "planner", researcher |-> "researcher", writer |-> "writer", end |-> "END"]

ResearcherEdges == [researcher |-> "researcher", writer |-> "writer", end |-> "END"]

\* Mutant: the researcher's edge leads to the writer after one pass, whatever
\* the router answers.
NextNode_one_pass(node, state) ==
    LET r == route_next_step(state) IN
    CASE node = "planner"    -> PlannerEdges[r]
      [] node = "researcher" -> "writer"
      [] node = "writer"     -> "END"

NextNode(node, state) ==
    LET r == route_next_step(state) IN
    CASE node = "planner"    -> PlannerEdges[r]
      [] node = "researcher" -> IF r \in DOMAIN ResearcherEdges THEN ResearcherEdges[r]
                                ELSE "no edge"
      [] node = "writer"     -> "END"

\* workflow.set_entry_point("planner")
EntryPoint == "planner"

Nodes == { "planner", "researcher", "writer" }

\* ----------------------------------- researcher.py: the activity events

\* The message emit_event builds: {"type": event_type, **data}.
Event(type, action) == [type |-> type, action |-> action]

\* The events of one paper: downloading, reading, summarizing, storing unless
\* the vector store is skipped, paper_complete; the except branch of the paper
\* emits an error activity wherever the processing raised.
PaperEvents(paper_fate, skip_vector_store) ==
    CASE paper_fate = "download raises" ->
            << Event("activity", "downloading"), Event("activity", "error") >>
      [] paper_fate = "summarize raises" ->
            << Event("activity", "downloading"), Event("activity", "reading"),
               Event("activity", "summarizing"), Event("activity", "error") >>
      [] OTHER ->
            << Event("activity", "downloading"), Event("activity", "reading"),
               Event("activity", "summarizing") >>
            \o (IF skip_vector_store THEN << >> ELSE << Event("activity", "storing") >>)
            \o << Event("paper_complete", None) >>

RECURSIVE PapersEvents(_, _, _)
PapersEvents(papers, fate, skip_vector_store) ==
    IF papers = << >> THEN << >>
    ELSE PaperEvents(fate[Head(papers).rank], skip_vector_store)
             \o PapersEvents(Tail(papers), fate, skip_vector_store)

\* The events research_topic hands to emit_event in one call, in order.
ActivityEvents(state, lightweight, skip_vector_store, search, fate) ==
    LET current_idx == Get(state, "current_task_index", 0)
        plan        == Get(state, "plan", << >>)
    IN  IF current_idx >= Len(plan) THEN << Event("status", None) >>
        ELSE << Event("researching", None), Event("activity", "searching") >> \o
             (IF search.raises THEN << Event("error", None) >>
              ELSE << Event("activity", "found_papers") >> \o
                   (IF search.n = 0 THEN << Event("activity", "no_papers") >>
                    ELSE PapersEvents(SubSeq(SearchResult(plan[current_idx + 1], search.n), 1,
                                             Min(search.n, PapersToProcess(lightweight))),
                                      fate, skip_vector_store)
                         \o << Event("question_complete", None) >>))

\* ------------------------------------- websocket.py: ConnectionManager
\* manager.connections is kept by the ids of the sessions that have a
\* websocket registered.

\* ConnectionManager.connect: the websocket is registered under the session id.
connect(connections, session_id) == connections \cup { session_id }

\* ConnectionManager.disconnect
disconnect(connections, session_id) == connections \ { session_id }

\* ConnectionManager.send, called once per event: the messages that reach the
\* client.  Without a registered connection nothing is sent; on a closed
\* websocket send_json raises and nothing arrives.
manager_send(connections, ch, session_id, messages) ==
    IF session_id \in connections /\ ch = "open" THEN messages ELSE << >>

\* ConnectionManager.send: the connections it leaves.  A send that raises
\* drops the connection.
manager_send_leaves(connections, ch, session_id, messages) ==
    IF session_id \in connections /\ ch # "open" /\ messages # << >>
    THEN disconnect(connections, session_id)
    ELSE connections

\* ------------------------------------------------------------- variables

VARIABLES
    pc,           \* where the behaviour's driver is (see the actions)
    query,        \* the session's query, None before it starts
    settings,     \* config.settings: LIGHTWEIGHT_MODE, SKIP_VECTOR_STORE
    g,            \* the graph's own state (its channels) in the current run
    node,         \* the node the graph runs next: a node, "END", or None
    graph_input,  \* the state the current graph run was started with
    pending,      \* the update events astream has yielded and the driver not yet taken
    cur,          \* current_state of run_research_step_by_step
    step_count,   \* step_count of run_research_step_by_step
    ws_sessions,  \* websocket.py's session store
    sessions,     \* research.py's session store
    invocations,  \* graph.invoke calls of the request/response session so far
    steps,        \* history: how often each node has run in this session
    attempts,     \* history: the papers the current run's Research steps took up, and how each ended
    client_connected, \* websocket.py's per-session liveness flags
    channel,      \* the websocket: "open", or "closed" once the client is gone
    sent,         \* history: the messages handed to safe_send, each with what became of it
    yielded,      \* history: the events graph.astream has yielded in this run
    collection,   \* chroma.py's collection "research_papers" (followed in IndexSpec alone)
    connections,  \* manager.connections of websocket.py, by session id
    delivered,    \* history: the activity events that reached the client
    input,        \* the single-call specifications: the collaborator outcome the call is given
    result        \* the single-call specifications: what the call returned

vars == << pc, query, settings, g, node, graph_input, pending, cur, step_count,
           ws_sessions, sessions, invocations, steps, attempts,
           client_connected, channel, sent, yielded, collection, connections, delivered,
           input, result >>

\* An empty dict.
EmptyDict == << >>

\* SKIP_VECTOR_STORE inherits LIGHTWEIGHT_MODE unless the environment sets it.
SettingsValues ==
    { [ LIGHTWEIGHT_MODE |-> FALSE, SKIP_VECTOR_STORE |-> FALSE ],
      [ LIGHTWEIGHT_MODE |-> TRUE,  SKIP_VECTOR_STORE |-> TRUE ] }

NoSteps == [planner |-> 0, researcher |-> 0, writer |-> 0]

Init ==
    /\ pc = "idle"
    /\ query = None
    /\ settings \in SettingsValues
    /\ g = EmptyDict
    /\ node = None
    /\ graph_input = EmptyDict
    /\ pending = << >>
    /\ cur = EmptyDict
    /\ step_count = 0
    /\ ws_sessions = EmptyDict
    /\ sessions = EmptyDict
    /\ invocations = 0
    /\ steps = NoSteps
    /\ attempts = << >>
    /\ client_connected = EmptyDict
    /\ channel = "open"
    /\ sent = << >>
    /\ yielded = << >>
    /\ collection = {}
    /\ connections = {}
    /\ delivered = << >>
    /\ input = None
    /\ result = None

\* ----------------------------------------------------- running the graph

\* A graph run is under way: astream in the streaming driver, invoke in the
\* request/response handlers.
Running == pc \in { "ws_loop", "rest_invoke" }

\* graph.astream(state) / graph.invoke(state): the input is written to the
\* channels and the entry point is scheduled.
StartGraph(state) ==
    /\ g' = ApplyUpdate(EmptyDict, state)
    /\ graph_input' = state
    /\ node' = EntryPoint
    /\ attempts' = << >>

\* One superstep: the node's update is folded into the channels, the node's
\* edge picks the next node, and (stream_mode="updates") the event
\* {node: update} is yielded to a streaming driver.
RunNode(n, update) ==
    /\ Running
    /\ node = n
    /\ pending = << >>
    /\ g' = ApplyUpdate(g, update)
    /\ node' = NextNode(n, ApplyUpdate(g, update))
    /\ pending' = IF pc = "ws_loop" THEN << [node |-> n, update |-> update] >> ELSE pending
    /\ yielded' = IF pc = "ws_loop" THEN Append(yielded, [node |-> n, update |-> update]) ELSE yielded
    /\ steps' = [steps EXCEPT ![n] = @ + 1]

\* research_topic's calls of emit_event, each a manager.send under the
\* session's id.
EmitEvents(session_id, events) ==
    /\ delivered' = delivered \o manager_send(connections, channel, session_id, events)
    /\ connections' = manager_send_leaves(connections, channel, session_id, events)

\* The papers a Research step takes up, in order, each with whether its
\* processing succeeded: what the environment did, written down beside the run.
Attempted(state, search, fate) ==
    IF search.raises \/ Get(state, "current_task_index", 0) >= Len(Get(state, "plan", << >>))
    THEN << >>
    ELSE [ r \in 1..Min(search.n, PapersToProcess(settings.LIGHTWEIGHT_MODE)) |->
             [ paper |-> Paper(state.plan[state.current_task_index + 1], r),
               ok    |-> fate[r] = "ok" ] ]

Planner ==
    /\ Running /\ node = "planner"
    /\ \E outcome \in CompletionOutcomes :
        /\ RunNode("planner", plan_research(g, outcome))
        /\ UNCHANGED << pc, query, settings, graph_input, cur, step_count, ws_sessions,
                        sessions, invocations, attempts, input, result,
                    client_connected, channel, sent, collection, connections, delivered >>

Researcher ==
    /\ Running /\ node = "researcher"
    /\ \E search \in SearchOutcomes, fate \in FateMaps :
        /\ RunNode("researcher", research_topic(g, settings.LIGHTWEIGHT_MODE, search, fate))
        /\ attempts' = attempts \o Attempted(g, search, fate)
        /\ EmitEvents(Get(g, "session_id", "unknown"),
                      ActivityEvents(g, settings.LIGHTWEIGHT_MODE, settings.SKIP_VECTOR_STORE,
                                     search, fate))
        /\ UNCHANGED << pc, query, settings, graph_input, cur, step_count, ws_sessions,
                        sessions, invocations, input, result,
                    client_connected, channel, sent, collection >>

Writer ==
    /\ Running /\ node = "writer"
    /\ \E synthesis \in SynthesisOutcomes :
        /\ RunNode("writer", write_report(g, settings.SKIP_VECTOR_STORE, synthesis))
        /\ UNCHANGED << pc, query, settings, graph_input, cur, step_count, ws_sessions,
                        sessions, invocations, attempts, input, result,
                    client_connected, channel, sent, collection, connections, delivered >>

\* ------------------------------------------- websocket.py: streaming driver

\* Mutant: the update's documents replace the ones gathered so far.
MergeUpdate_replace(current_state, state_update) ==
    [ k \in DOMAIN current_state \cup DOMAIN state_update |->
        IF k \notin DOMAIN state_update THEN current_state[k]
        ELSE IF k \in { "logs" }
             THEN Get(current_state, k, << >>) \o state_update[k]
        ELSE state_update[k] ]

\* The hand merge of one update into current_state: documents and logs are
\* appended, every other key is replaced.
MergeUpdate(current_state, state_update) ==
    [ k \in DOMAIN current_state \cup DOMAIN state_update |->
        IF k \notin DOMAIN state_update THEN current_state[k]
        ELSE IF k \in { "documents", "logs" }
             THEN Get(current_state, k, << >>) \o state_update[k]
        ELSE state_update[k] ]

\* The entry persisted after each node.
StepEntry(current_state, q) ==
    DictMerge(current_state,
              [ original_query |-> q, status |-> Get(current_state, "status", "unknown") ])

\* The report: the content of the last message, None without messages.
FinalReport(current_state) ==
    IF Get(current_state, "messages", << >>) # << >>
    THEN current_state.messages[Len(current_state.messages)].content
    ELSE None

\* The entry persisted after the stream has ended.
FinalEntry(current_state, q) ==
    DictMerge(current_state,
              [ original_query |-> q, status |-> "completed",
                report |-> FinalReport(current_state) ])

\* What becomes of a message handed to safe_send: it is not attempted once the
\* liveness flag is false ("skipped"), it goes out on an open websocket
\* ("sent"), and send_json raises on a closed one ("failed").
SendOutcome(connected, ch) ==
    IF ~Get(connected, SID, TRUE) THEN "skipped"
    ELSE IF ch = "open" THEN "sent"
    ELSE "failed"

\* Mutant: a failed send leaves the flag as it was.
safe_send_flag_kept(connected, ch) == connected

\* safe_send's effect on client_connected: a failed send sets the flag to False.
safe_send_flag(connected, ch) ==
    IF SendOutcome(connected, ch) = "failed" THEN (SID :> FALSE) @@ connected ELSE connected

\* safe_send's return value.
safe_send(connected, ch) == SendOutcome(connected, ch) = "sent"

\* The history of safe_send calls, one more.
Attempt(history, connected, ch, message) ==
    Append(history, [ message  |-> message,
                      outcome  |-> SendOutcome(connected, ch),
                      returned |-> safe_send(connected, ch) ])

\* logs[-5:]
Last5(logs) == SubSeq(logs, IF Len(logs) > 5 THEN Len(logs) - 4 ELSE 1, Len(logs))

StartedMessage == [type |-> "started", session_id |-> SID]

ProgressMessage(node_name, step, current_state) ==
    [ type               |-> "progress",
      node               |-> node_name,
      step               |-> step,
      status             |-> Get(current_state, "status", "unknown"),
      plan               |-> Get(current_state, "plan", << >>),
      current_task_index |-> Get(current_state, "current_task_index", 0),
      documents          |-> [ i \in 1..Len(Documents(current_state)) |->
                                 [ title    |-> current_state.documents[i].title,
                                   arxiv_id |-> current_state.documents[i].arxiv_id ] ],
      logs               |-> Last5(Get(current_state, "logs", << >>)) ]

CompletedMessage(current_state) ==
    [ type       |-> "completed",
      session_id |-> SID,
      report     |-> FinalReport(current_state),
      documents  |-> Documents(current_state) ]

ErrorMessage(msg) == [type |-> "error", message |-> msg]

\* The finally block: client_connected.pop(session_id, None)
Pop(connected) == [ k \in DOMAIN connected \ { SID } |-> connected[k] ]

\* run_research_step_by_step up to its first await: the liveness flag is set
\* and the started message is handed to safe_send.
WsStart ==
    /\ pc = "idle"
    /\ \E q \in Queries : query' = q
    /\ client_connected' = safe_send_flag((SID :> TRUE) @@ client_connected, channel)
    /\ sent' = Attempt(sent, (SID :> TRUE) @@ client_connected, channel, StartedMessage)
    /\ pc' = "ws_started"
    /\ UNCHANGED << settings, g, node, graph_input, pending, cur, step_count, ws_sessions,
                    sessions, invocations, steps, attempts, channel, input, result, yielded, collection, connections, delivered >>

\* After the started message: the initial state is created and stored, and the
\* graph is started on it.
WsInit ==
    /\ pc = "ws_started"
    /\ cur' = create_initial_state(SID, query)
    /\ ws_sessions' = (SID :> DictMerge(create_initial_state(SID, query),
                                        [ original_query |-> query, status |-> "planning" ]))
                          @@ ws_sessions
    /\ StartGraph(create_initial_state(SID, query))
    /\ step_count' = 0
    /\ pc' = "ws_loop"
    /\ UNCHANGED << query, settings, pending, sessions, invocations, steps,
                    client_connected, channel, sent, input, result, yielded, collection, connections, delivered >>

\* Mutant: the except branch stores a fresh entry of status and error alone.
ErrorEntry_fresh(store, msg) == [ status |-> "error", error |-> msg ]

\* The entry stored by the except branch: the stored entry, status and error replaced.
ErrorEntry(store, msg) ==
    DictMerge(Get(store, SID, EmptyDict), [ status |-> "error", error |-> msg ])

\* get_session: 404 for an unknown id, else the stored entry as the response
\* (each document cut down to title, arxiv_id and summary).
get_session(store, session_id) ==
    IF session_id \notin DOMAIN store THEN [found |-> FALSE]
    ELSE LET session == store[session_id] IN
         [ found              |-> TRUE,
           session_id         |-> session_id,
           status             |-> Get(session, "status", "unknown"),
           plan               |-> Get(session, "plan", << >>),
           current_task_index |-> Get(session, "current_task_index", 0),
           documents          |-> [ i \in 1..Len(Documents(session)) |->
                                      [ title    |-> session.documents[i].title,
                                        arxiv_id |-> session.documents[i].arxiv_id,
                                        summary  |-> session.documents[i].summary ] ],
           report             |-> Get(session, "report", None),
           original_query     |-> Get(session, "original_query", "") ]

\* Mutant: a send that fails raises out of the loop body into the except branch.
WsMerge_send_raises ==
    /\ pc = "ws_loop"
    /\ pending # << >>
    /\ step_count' = step_count + 1
    /\ cur' = MergeUpdate(cur, Head(pending).update)
    /\ ws_sessions' =
          IF SendOutcome(client_connected, channel) = "failed"
          THEN (SID :> DictMerge(StepEntry(MergeUpdate(cur, Head(pending).update), query),
                                 [ status |-> "error", error |-> "send failed" ])) @@ ws_sessions
          ELSE (SID :> StepEntry(MergeUpdate(cur, Head(pending).update), query)) @@ ws_sessions
    /\ client_connected' = safe_send_flag(client_connected, channel)
    /\ sent' = Attempt(sent, client_connected, channel,
                       ProgressMessage(Head(pending).node, step_count + 1,
                                       MergeUpdate(cur, Head(pending).update)))
    /\ pending' = Tail(pending)
    /\ pc' = IF SendOutcome(client_connected, channel) = "failed" THEN "ws_done" ELSE pc
    /\ UNCHANGED << query, settings, g, node, graph_input, sessions, invocations,
                    steps, attempts, channel, input, result, yielded, collection, connections, delivered >>

\* Mutant: the step's progress goes out, but the merged state is not stored.
WsMerge_not_persisted ==
    /\ pc = "ws_loop"
    /\ pending # << >>
    /\ step_count' = step_count + 1
    /\ cur' = MergeUpdate(cur, Head(pending).update)
    /\ client_connected' = safe_send_flag(client_connected, channel)
    /\ sent' = Attempt(sent, client_connected, channel,
                       ProgressMessage(Head(pending).node, step_count + 1,
                                       MergeUpdate(cur, Head(pending).update)))
    /\ pending' = Tail(pending)
    /\ UNCHANGED << pc, query, settings, g, node, graph_input, ws_sessions, sessions, invocations,
                    steps, attempts, channel, input, result, yielded, collection, connections, delivered >>

\* Mutant: the update's fields are patched into the stored entry one by one.
WsMerge_patches_fields ==
    /\ pc = "ws_loop"
    /\ pending # << >>
    /\ step_count' = step_count + 1
    /\ cur' = MergeUpdate(cur, Head(pending).update)
    /\ ws_sessions' = (SID :> DictMerge(ws_sessions[SID], Head(pending).update)) @@ ws_sessions
    /\ client_connected' = safe_send_flag(client_connected, channel)
    /\ sent' = Attempt(sent, client_connected, channel,
                       ProgressMessage(Head(pending).node, step_count + 1,
                                       MergeUpdate(cur, Head(pending).update)))
    /\ pending' = Tail(pending)
    /\ UNCHANGED << pc, query, settings, g, node, graph_input, sessions, invocations,
                    steps, attempts, channel, input, result, yielded, collection, connections, delivered >>

\* The body of the async-for loop for one event: count, merge, persist, then
\* hand the progress message to safe_send.
WsMerge ==
    /\ pc = "ws_loop"
    /\ pending # << >>
    /\ step_count' = step_count + 1
    /\ cur' = MergeUpdate(cur, Head(pending).update)
    /\ ws_sessions' = (SID :> StepEntry(MergeUpdate(cur, Head(pending).update), query)) @@ ws_sessions
    /\ client_connected' = safe_send_flag(client_connected, channel)
    /\ sent' = Attempt(sent, client_connected, channel,
                       ProgressMessage(Head(pending).node, step_count + 1,
                                       MergeUpdate(cur, Head(pending).update)))
    /\ pending' = Tail(pending)
    /\ UNCHANGED << pc, query, settings, g, node, graph_input, sessions, invocations,
                    steps, attempts, channel, input, result, yielded, collection, connections, delivered >>

\* Mutant: the final entry is stored only while the client is still there.
WsFinish_skips_when_gone ==
    /\ pc = "ws_loop"
    /\ pending = << >>
    /\ node = "END"
    /\ ws_sessions' = IF SendOutcome(client_connected, channel) = "sent"
                      THEN (SID :> FinalEntry(cur, query)) @@ ws_sessions
                      ELSE ws_sessions
    /\ sent' = Attempt(sent, client_connected, channel, CompletedMessage(cur))
    /\ client_connected' = Pop(safe_send_flag(client_connected, channel))
    /\ connections' = disconnect(connections, SID)
    /\ pc' = "ws_done"
    /\ UNCHANGED << query, settings, g, node, graph_input, pending, cur, step_count,
                    sessions, invocations, steps, attempts, channel, input, result, yielded, collection, delivered >>

\* Mutant: the final entry is stored, but no completed message is handed over.
WsFinish_no_event ==
    /\ pc = "ws_loop"
    /\ pending = << >>
    /\ node = "END"
    /\ ws_sessions' = (SID :> FinalEntry(cur, query)) @@ ws_sessions
    /\ client_connected' = Pop(client_connected)
    /\ connections' = disconnect(connections, SID)
    /\ pc' = "ws_done"
    /\ UNCHANGED << query, settings, g, node, graph_input, pending, cur, step_count,
                    sessions, invocations, steps, attempts, channel, sent, input, result, yielded, collection, delivered >>

\* After the loop: the final persist, with the report, the completed message,
\* and the finally block.
WsFinish ==
    /\ pc = "ws_loop"
    /\ pending = << >>
    /\ node = "END"
    /\ ws_sessions' = (SID :> FinalEntry(cur, query)) @@ ws_sessions
    /\ sent' = Attempt(sent, client_connected, channel, CompletedMessage(cur))
    /\ client_connected' = Pop(safe_send_flag(client_connected, channel))
    /\ connections' = disconnect(connections, SID)
    /\ pc' = "ws_done"
    /\ UNCHANGED << query, settings, g, node, graph_input, pending, cur, step_count,
                    sessions, invocations, steps, attempts, channel, input, result, yielded, collection, delivered >>

\* An exception escapes graph.astream before the stream has ended: the except
\* branch stores the error entry and hands the error message to safe_send, and
\* the driver is done.
WsRaises ==
    /\ pc = "ws_loop"
    /\ pending = << >>
    /\ node \in Nodes
    /\ ws_sessions' = (SID :> ErrorEntry(ws_sessions, "exception")) @@ ws_sessions
    /\ sent' = Attempt(sent, client_connected, channel, ErrorMessage("exception"))
    /\ client_connected' = Pop(safe_send_flag(client_connected, channel))
    /\ connections' = disconnect(connections, SID)
    /\ pc' = "ws_done"
    /\ UNCHANGED << query, settings, g, node, graph_input, pending, cur, step_count,
                    sessions, invocations, steps, attempts, channel, input, result, yielded, collection, delivered >>

\* The driver is about to hand a message to safe_send: started, the progress of
\* a step, or completed.
AboutToSend ==
    \/ pc = "idle"
    \/ pc = "ws_loop" /\ pending # << >>
    \/ pc = "ws_loop" /\ pending = << >> /\ node = "END"

\* The client goes away: from now on send_json raises.  The driver looks at the
\* websocket only when it sends, so the client's leaving is placed right before
\* the send that meets the closed socket.
Disconnect ==
    /\ AboutToSend
    /\ channel = "open"
    /\ Get(client_connected, SID, TRUE)
    /\ channel' = "closed"
    /\ UNCHANGED << pc, query, settings, g, node, graph_input, pending, cur, step_count,
                    ws_sessions, sessions, invocations, steps, attempts,
                    client_connected, sent, input, result, yielded, collection, connections, delivered >>

\* ------------------------------------- research.py: request/response mode

\* The id of a session that was started before this one.
OtherSID == "other"

\* The ids a request can name: this session's and the earlier one's (either
\* is unknown to a store that does not hold it).
SessionIds == { SID, OtherSID }

\* A request as a handler receives it.
Request(handler, session_id) == [handler |-> handler, session_id |-> session_id]

\* HTTPException(status_code=404, detail="Session not found")
NotFound == [status_code |-> 404, detail |-> "Session not found"]

\* HTTPException(status_code=500, detail=str(e))
ServerError == [status_code |-> 500, detail |-> "exception"]

\* The documents of a response: title and arxiv_id of each.
DocumentRefs(state) ==
    [ i \in 1..Len(Documents(state)) |->
        [ title |-> state.documents[i].title, arxiv_id |-> state.documents[i].arxiv_id ] ]

\* The response of start_research.
StartResponse(session_id, state) ==
    [ session_id   |-> session_id,
      status       |-> Get(state, "status", "unknown"),
      initial_plan |-> Get(state, "plan", << >>),
      logs         |-> Get(state, "logs", << >>) ]

\* The response of next_step on a complete session.
CompleteResponse(session_id, state) ==
    [ session_id |-> session_id,
      status     |-> "completed",
      logs       |-> Get(state, "logs", << >>),
      report     |-> FinalReport(state),
      documents  |-> DocumentRefs(state) ]

\* The response of next_step after graph.invoke.
NextStepResponse(session_id, state) ==
    DictMerge([ session_id   |-> session_id,
                status       |-> Get(state, "status", "unknown"),
                logs         |-> Get(state, "logs", << >>),
                current_data |-> [ plan               |-> Get(state, "plan", << >>),
                                   current_task_index |-> Get(state, "current_task_index", 0),
                                   documents          |-> DocumentRefs(state) ] ],
              IF IsComplete(state) /\ Get(state, "messages", << >>) # << >>
              THEN [ report |-> FinalReport(state) ]
              ELSE EmptyDict)

\* research.py's get_session: 404 for an unknown id, else the stored state as
\* a SessionResponse.
research_get_session(store, session_id) ==
    IF session_id \notin DOMAIN store THEN NotFound
    ELSE LET state == store[session_id] IN
         [ session_id         |-> session_id,
           status             |-> Get(state, "status", "unknown"),
           plan               |-> Get(state, "plan", << >>),
           current_task_index |-> Get(state, "current_task_index", 0),
           documents          |-> Documents(state),
           logs               |-> Get(state, "logs", << >>),
           report             |-> IF IsComplete(state) /\ Get(state, "messages", << >>) # << >>
                                  THEN FinalReport(state) ELSE None,
           error              |-> Get(state, "error", None) ]

\* Mutant: the delete empties the store.
Deleted_all(store, session_id) == EmptyDict

\* del sessions[session_id]
Deleted(store, session_id) == [ k \in DOMAIN store \ { session_id } |-> store[k] ]

\* delete_session's response.
delete_session(store, session_id) ==
    IF session_id \notin DOMAIN store THEN NotFound
    ELSE [ message |-> "Session deleted", session_id |-> session_id ]

\* start_research up to graph.invoke.
StartResearch ==
    /\ pc = "idle"
    /\ \E q \in Queries :
        /\ query' = q
        /\ StartGraph(create_initial_state(SID, q))
    /\ invocations' = 1
    /\ input' = Request("start_research", SID)
    /\ result' = None
    /\ pc' = "rest_invoke"
    /\ UNCHANGED << settings, pending, cur, step_count, ws_sessions, sessions, steps,
                    client_connected, channel, sent, yielded, collection, connections, delivered >>

\* graph.invoke returns the final state, which is stored and reported
\* (start_research and next_step alike).
InvokeReturns ==
    /\ pc = "rest_invoke"
    /\ node = "END"
    /\ sessions' = (SID :> g) @@ sessions
    /\ result' = IF input.handler = "start_research"
                 THEN StartResponse(SID, g)
                 ELSE NextStepResponse(SID, g)
    /\ pc' = "rest_wait"
    /\ UNCHANGED << query, settings, g, node, graph_input, pending, cur, step_count,
                    ws_sessions, invocations, steps, attempts, input,
                    client_connected, channel, sent, yielded, collection, connections, delivered >>

\* graph.invoke raises (the except branch: HTTP 500): nothing is stored, and the
\* run's state is gone with the call.
InvokeRaises ==
    /\ pc = "rest_invoke"
    /\ node \in Nodes
    /\ node' = None
    /\ g' = EmptyDict
    /\ graph_input' = EmptyDict
    /\ attempts' = << >>
    /\ result' = ServerError
    /\ pc' = "rest_wait"
    /\ UNCHANGED << query, settings, pending, cur, step_count,
                    ws_sessions, sessions, invocations, steps, input,
                    client_connected, channel, sent, yielded, collection, connections, delivered >>

\* next_step for an unknown session: 404.
NextStepNotFound ==
    /\ pc = "rest_wait"
    /\ \E s \in SessionIds :
        /\ s \notin DOMAIN sessions
        /\ input' = Request("next_step", s)
    /\ result' = NotFound
    /\ UNCHANGED << pc, query, settings, g, node, graph_input, pending, cur, step_count,
                    ws_sessions, sessions, invocations, steps, attempts,
                    client_connected, channel, sent, yielded, collection, connections, delivered >>

\* next_step on a complete session: the stored report is returned.
NextStepComplete ==
    /\ pc = "rest_wait"
    /\ \E s \in SessionIds :
        /\ s \in DOMAIN sessions
        /\ Get(sessions[s], "is_complete", FALSE)
        /\ input' = Request("next_step", s)
        /\ result' = CompleteResponse(s, sessions[s])
    /\ UNCHANGED << pc, query, settings, g, node, graph_input, pending, cur, step_count,
                    ws_sessions, sessions, invocations, steps, attempts,
                    client_connected, channel, sent, yielded, collection, connections, delivered >>

\* Mutant: next_step without the early return for a complete session.
NextStepInvoke_unguarded ==
    /\ pc = "rest_wait"
    /\ SID \in DOMAIN sessions
    /\ invocations < MaxInvokes
    /\ StartGraph(sessions[SID])
    /\ invocations' = invocations + 1
    /\ input' = Request("next_step", SID)
    /\ result' = None
    /\ pc' = "rest_invoke"
    /\ UNCHANGED << query, settings, pending, cur, step_count, ws_sessions, sessions,
                    steps, client_connected, channel, sent, yielded, collection, connections, delivered >>

\* next_step otherwise: graph.invoke on the stored state.
NextStepInvoke ==
    /\ pc = "rest_wait"
    /\ SID \in DOMAIN sessions
    /\ ~Get(sessions[SID], "is_complete", FALSE)
    /\ invocations < MaxInvokes
    /\ StartGraph(sessions[SID])
    /\ invocations' = invocations + 1
    /\ input' = Request("next_step", SID)
    /\ result' = None
    /\ pc' = "rest_invoke"
    /\ UNCHANGED << query, settings, pending, cur, step_count, ws_sessions, sessions,
                    steps, client_connected, channel, sent, yielded, collection, connections, delivered >>

\* research.py's get_session, between two runs of the graph.
GetSession ==
    /\ pc \in { "idle", "rest_wait" }
    /\ \E s \in SessionIds :
        /\ input' = Request("get_session", s)
        /\ result' = research_get_session(sessions, s)
    /\ UNCHANGED << pc, query, settings, g, node, graph_input, pending, cur, step_count,
                    ws_sessions, sessions, invocations, steps, attempts,
                    client_connected, channel, sent, yielded, collection, connections, delivered >>

\* websocket.py's get_session, the same.
WsGetSession ==
    /\ pc \in { "idle", "rest_wait" }
    /\ \E s \in SessionIds :
        /\ input' = Request("ws_get_session", s)
        /\ result' = get_session(ws_sessions, s)
    /\ UNCHANGED << pc, query, settings, g, node, graph_input, pending, cur, step_count,
                    ws_sessions, sessions, invocations, steps, attempts,
                    client_connected, channel, sent, yielded, collection, connections, delivered >>

\* delete_session: 404 for an unknown id, else the entry is removed.
DeleteSession ==
    /\ pc \in { "idle", "rest_wait" }
    /\ \E s \in SessionIds :
        /\ input' = Request("delete_session", s)
        /\ result' = delete_session(sessions, s)
        /\ sessions' = IF s \in DOMAIN sessions THEN Deleted(sessions, s) ELSE sessions
    /\ UNCHANGED << pc, query, settings, g, node, graph_input, pending, cur, step_count,
                    ws_sessions, invocations, steps, attempts,
                    client_connected, channel, sent, yielded, collection, connections, delivered >>

\* The program with a client that stays on the channel.
Next ==
    \/ WsStart
    \/ WsInit
    \/ Planner
    \/ Researcher
    \/ Writer
    \/ WsMerge
    \/ WsFinish
    \/ WsRaises
    \/ StartResearch
    \/ InvokeReturns
    \/ InvokeRaises
    \/ NextStepNotFound
    \/ NextStepComplete
    \/ NextStepInvoke

Spec == Init /\ [][Next]_vars

\* The streaming driver alone, with collaborators that return or raise, no
\* exception escaping the graph, and a client that may go away at any moment.
StreamProgram ==
    \/ WsStart
    \/ WsInit
    \/ Planner
    \/ Researcher
    \/ Writer
    \/ WsMerge
    \/ WsFinish

StreamNext ==
    \/ StreamProgram
    \/ Disconnect

\* The event loop keeps scheduling the driver and every awaited call comes
\* back, so a step of the program that can be taken is taken; nothing is
\* assumed of the client.
StreamSpec == Init /\ [][StreamNext]_vars /\ WF_vars(StreamProgram)

\* ------------- the streaming driver with faults, next to an earlier session

\* The entry the earlier session left in the store: the completion of its Plan step
\* raised, the stream ended, and the final persist stored it.
EarlierEntry ==
    FinalEntry(MergeUpdate(create_initial_state(OtherSID, "Q1"), PlannerError("completion raised")),
               "Q1")

FaultInit ==
    /\ pc = "idle"
    /\ query = None
    /\ settings \in SettingsValues
    /\ g = EmptyDict
    /\ node = None
    /\ graph_input = EmptyDict
    /\ pending = << >>
    /\ cur = EmptyDict
    /\ step_count = 0
    /\ ws_sessions = (OtherSID :> EarlierEntry)
    /\ sessions = EmptyDict
    /\ invocations = 0
    /\ steps = NoSteps
    /\ attempts = << >>
    /\ client_connected = EmptyDict
    /\ channel = "open"
    /\ sent = << >>
    /\ yielded = << >>
    /\ collection = {}
    /\ connections = {}
    /\ delivered = << >>
    /\ input = None
    /\ result = None

\* The streaming driver, a client that may go away, and an exception that may
\* escape graph.astream at any step.
FaultProgram ==
    \/ StreamProgram
    \/ WsRaises

FaultNext ==
    \/ FaultProgram
    \/ Disconnect

FaultSpec == FaultInit /\ [][FaultNext]_vars /\ WF_vars(FaultProgram)

\* ------------------------------------------------- the router on any state

\* Every workflow state over the bounded fields, the inconsistent ones included.
RouterPlans == { << >>, << "A" >>, << "A", "B" >> }

ArbitraryStates ==
    { [ create_initial_state(SID, "Q1") EXCEPT
          !.is_complete = c, !.status = s, !.plan = p,
          !.current_task_index = i, !.error = e ] :
        c \in BOOLEAN, s \in StatusValues, p \in RouterPlans,
        i \in -1 .. MaxPlan + 1, e \in { None, "boom" } }

\* The variables a single call does not use.
Unused ==
    /\ node = None
    /\ graph_input = EmptyDict
    /\ pending = << >>
    /\ cur = EmptyDict
    /\ step_count = 0
    /\ ws_sessions = EmptyDict
    /\ sessions = EmptyDict
    /\ invocations = 0
    /\ steps = NoSteps
    /\ attempts = << >>
    /\ client_connected = EmptyDict
    /\ channel = "open"
    /\ sent = << >>
    /\ yielded = << >>
    /\ collection = {}
    /\ connections = {}
    /\ delivered = << >>

RouterInit ==
    /\ pc = "route"
    /\ query = "Q1"
    /\ settings \in SettingsValues
    /\ g \in ArbitraryStates
    /\ input = None
    /\ result = None
    /\ Unused

Route ==
    /\ pc = "route"
    /\ result' = route_next_step(g)
    /\ pc' = "routed"
    /\ UNCHANGED << query, settings, g, node, graph_input, pending, cur, step_count,
                    ws_sessions, sessions, invocations, steps, attempts, input,
                    client_connected, channel, sent, yielded, collection, connections, delivered >>

RouterNext == Route

RouterSpec == RouterInit /\ [][RouterNext]_vars

\* ------------------------------------------ the Plan step on a fresh state

PlannerInit ==
    /\ pc = "plan"
    /\ query \in Queries
    /\ settings \in SettingsValues
    /\ g = create_initial_state(SID, query)
    /\ input \in CompletionOutcomes
    /\ result = None
    /\ Unused

Plan ==
    /\ pc = "plan"
    /\ result' = plan_research(g, input)
    /\ pc' = "planned"
    /\ UNCHANGED << query, settings, g, node, graph_input, pending, cur, step_count,
                    ws_sessions, sessions, invocations, steps, attempts, input,
                    client_connected, channel, sent, yielded, collection, connections, delivered >>

PlannerNext == Plan

PlannerSpec == PlannerInit /\ [][PlannerNext]_vars

\* ------------------------------------------ the Plan step called twice

\* The states the Plan step is called on: the fresh state of a query, and
\* states of the same query whose other fields hold something else.
PlanCallStates(q) ==
    { [ create_initial_state(SID, q) EXCEPT
          !.plan = p, !.current_task_index = i, !.status = s ] :
        p \in { << >>, << "A", "B" >> }, i \in { 0, 1 }, s \in { "planning", "error" } }

\* The completion is a stub: it does the same at every call.
TwiceInit ==
    /\ pc = "plan"
    /\ query \in Queries
    /\ settings \in SettingsValues
    /\ g \in PlanCallStates(query)
    /\ input \in CompletionOutcomes
    /\ result = << >>
    /\ Unused

\* plan_research is called on the state; the state is the caller's to update
\* and stays as it is.
PlanCall ==
    /\ pc = "plan"
    /\ Len(result) < 2
    /\ result' = Append(result, plan_research(g, input))
    /\ UNCHANGED << pc, query, settings, g, node, graph_input, pending, cur, step_count,
                    ws_sessions, sessions, invocations, steps, attempts, input,
                    client_connected, channel, sent, yielded, collection, connections, delivered >>

TwiceNext == PlanCall

TwiceSpec == TwiceInit /\ [][TwiceNext]_vars

\* ------------------------- the Research and Write steps called one by one

\* The states a successful Plan step leaves a fresh session in.
PlannedStates(q) ==
    { ApplyUpdate(create_initial_state(SID, q), plan_research(create_initial_state(SID, q), o)) :
        o \in { c \in CompletionOutcomes :
                  plan_research(create_initial_state(SID, q), c).status = "researching" } }

NodeInit ==
    /\ pc = "call"
    /\ query \in Queries
    /\ settings \in SettingsValues
    /\ g \in PlannedStates(query)
    /\ input = EmptyDict
    /\ result = EmptyDict
    /\ Unused

\* research_topic is called on the state and its update folded in; the call is
\* made while the router asks for it, and once more after the plan is drained
\* (the call the safety check is there for).
ResearchCall ==
    /\ pc = "call"
    /\ ~IsComplete(g)
    /\ steps.researcher <= Len(g.plan)
    /\ \E search \in SearchOutcomes, fate \in FateMaps :
        /\ input' = search
        /\ result' = research_topic(g, settings.LIGHTWEIGHT_MODE, search, fate)
        /\ g' = ApplyUpdate(g, research_topic(g, settings.LIGHTWEIGHT_MODE, search, fate))
        /\ attempts' = attempts \o Attempted(g, search, fate)
        /\ EmitEvents(Get(g, "session_id", "unknown"),
                      ActivityEvents(g, settings.LIGHTWEIGHT_MODE, settings.SKIP_VECTOR_STORE,
                                     search, fate))
    /\ steps' = [steps EXCEPT !.researcher = @ + 1]
    /\ UNCHANGED << pc, query, settings, node, graph_input, pending, cur, step_count,
                    ws_sessions, sessions, invocations,
                    client_connected, channel, sent, yielded, collection >>

\* write_report is called on the state once the router asks for the writer.
WriteCall ==
    /\ pc = "call"
    /\ route_next_step(g) = "writer"
    /\ \E synthesis \in SynthesisOutcomes :
        /\ input' = [synthesis |-> synthesis]
        /\ result' = write_report(g, settings.SKIP_VECTOR_STORE, synthesis)
        /\ g' = ApplyUpdate(g, write_report(g, settings.SKIP_VECTOR_STORE, synthesis))
    /\ steps' = [steps EXCEPT !.writer = @ + 1]
    /\ UNCHANGED << pc, query, settings, node, graph_input, pending, cur, step_count,
                    ws_sessions, sessions, invocations, attempts,
                    client_connected, channel, sent, yielded, collection, connections, delivered >>

NodeNext ==
    \/ ResearchCall
    \/ WriteCall

NodeSpec == NodeInit /\ [][NodeNext]_vars

\* --------------- the request/response handlers, next to an earlier session

\* The state the earlier session was stored in: its plan was the fallback, the
\* search found nothing, and the Write step failed without documents.
EarlierPlanned == ApplyUpdate(create_initial_state(OtherSID, "Q1"), PlannerFallback("Q1"))

EarlierResearched == ApplyUpdate(EarlierPlanned, ResearchMiss(0, EarlierPlanned.plan))

EarlierState == ApplyUpdate(EarlierResearched, write_report(EarlierResearched, TRUE, "raises"))

\* The states graph.invoke leaves a session in when its searches find
\* nothing: the plan is drained question by question and the Write step ends
\* the session.
RECURSIVE Drained(_)
Drained(state) ==
    IF route_next_step(state) = "researcher"
    THEN Drained(ApplyUpdate(state, ResearchMiss(state.current_task_index, state.plan)))
    ELSE state

\* The states this session can be stored in: the Plan step failed, or the
\* run went through to the Write step.
StoredStates ==
    { ApplyUpdate(create_initial_state(SID, q), PlannerError("completion raised")) : q \in Queries }
    \cup { ApplyUpdate(Drained(p), write_report(Drained(p), skip, synthesis)) :
             p \in UNION { PlannedStates(q) : q \in Queries },
             skip \in BOOLEAN, synthesis \in SynthesisOutcomes }

\* The handlers find the store as earlier requests left it: the earlier
\* session's entry, and this session's if it was started.
StoreInit ==
    /\ pc = "rest_wait"
    /\ query = None
    /\ settings \in SettingsValues
    /\ g = EmptyDict
    /\ node = None
    /\ graph_input = EmptyDict
    /\ pending = << >>
    /\ cur = EmptyDict
    /\ step_count = 0
    /\ ws_sessions = (OtherSID :> EarlierEntry)
    /\ sessions \in { (OtherSID :> EarlierState) }
                      \cup { (SID :> state) @@ (OtherSID :> EarlierState) : state \in StoredStates }
    /\ invocations = 0
    /\ steps = NoSteps
    /\ attempts = << >>
    /\ client_connected = EmptyDict
    /\ channel = "open"
    /\ sent = << >>
    /\ yielded = << >>
    /\ collection = {}
    /\ connections = {}
    /\ delivered = << >>
    /\ input = Request(None, None)
    /\ result = None

\* The handlers that answer from the store without running the graph.
StoreNext ==
    \/ NextStepNotFound
    \/ NextStepComplete
    \/ GetSession
    \/ WsGetSession
    \/ DeleteSession

StoreSpec == StoreInit /\ [][StoreNext]_vars

\* ------------------------- two streaming sessions and the one vector store

\* A session as its driver holds and stores it once the Plan step has fallen
\* back to the query as the only question.
PlannedEntry(session_id, q) ==
    StepEntry(MergeUpdate(create_initial_state(session_id, q), PlannerFallback(q)), q)

\* No retrieval has been made yet.
NoRetrieval == [session_id |-> None, skipped |-> TRUE, context |-> {}]

\* Two sessions, on different queries, have been planned; nothing is indexed.
IndexInit ==
    /\ pc = "sessions"
    /\ query = None
    /\ settings \in SettingsValues
    /\ g = EmptyDict
    /\ node = None
    /\ graph_input = EmptyDict
    /\ pending = << >>
    /\ cur = EmptyDict
    /\ step_count = 0
    /\ ws_sessions = (SID :> PlannedEntry(SID, "Q1")) @@ (OtherSID :> PlannedEntry(OtherSID, "Q2"))
    /\ sessions = EmptyDict
    /\ invocations = 0
    /\ steps = NoSteps
    /\ attempts = << >>
    /\ client_connected = EmptyDict
    /\ channel = "open"
    /\ sent = << >>
    /\ yielded = << >>
    /\ collection = {}
    /\ connections = {}
    /\ delivered = << >>
    /\ input = NoRetrieval
    /\ result = None

\* The Research step of one of the sessions, with its calls of the vector
\* store, and the loop body's merge and persist.
SessionResearch ==
    /\ pc = "sessions"
    /\ \E s \in SessionIds, search \in SearchOutcomes, fate \in FateMaps :
        /\ route_next_step(ws_sessions[s]) = "researcher"
        /\ LET update == research_topic(ws_sessions[s], settings.LIGHTWEIGHT_MODE, search, fate)
           IN  /\ collection' = IndexPapers(collection, settings.SKIP_VECTOR_STORE,
                                            Get(update, "documents", << >>))
               /\ ws_sessions' = (s :> StepEntry(MergeUpdate(ws_sessions[s], update),
                                                 ws_sessions[s].original_query)) @@ ws_sessions
        /\ EmitEvents(s, ActivityEvents(ws_sessions[s], settings.LIGHTWEIGHT_MODE,
                                        settings.SKIP_VECTOR_STORE, search, fate))
    /\ UNCHANGED << pc, query, settings, g, node, graph_input, pending, cur, step_count,
                    sessions, invocations, steps, attempts,
                    client_connected, channel, sent, yielded, input, result >>

\* The Write step of one of the sessions, with its query of the vector store
\* (the retrieval is kept in input), and the loop body's merge and persist.
SessionWrite ==
    /\ pc = "sessions"
    /\ \E s \in SessionIds, synthesis \in SynthesisOutcomes :
        /\ route_next_step(ws_sessions[s]) = "writer"
        /\ \E found \in vector_store_query(collection, ws_sessions[s].original_query, N_RESULTS) :
              input' = [ session_id |-> s,
                         skipped    |-> settings.SKIP_VECTOR_STORE \/ synthesis = "retrieval raises",
                         context    |-> IF settings.SKIP_VECTOR_STORE \/ synthesis = "retrieval raises"
                                        THEN {} ELSE found ]
        /\ ws_sessions' =
              (s :> StepEntry(MergeUpdate(ws_sessions[s],
                                          write_report(ws_sessions[s], settings.SKIP_VECTOR_STORE,
                                                       synthesis)),
                              ws_sessions[s].original_query)) @@ ws_sessions
    /\ UNCHANGED << pc, query, settings, g, node, graph_input, pending, cur, step_count,
                    sessions, invocations, steps, attempts,
                    client_connected, channel, sent, yielded, collection, connections, delivered, result >>

IndexNext ==
    \/ SessionResearch
    \/ SessionWrite

IndexSpec == IndexInit /\ [][IndexNext]_vars

\* ------------------------------------------------- the vector store alone

\* The documents the calls are about, and the chunk lists they pass.
DocIds == { << "Q1", 1 >>, << "Q1", 2 >> }

ChunkTexts == { "text a", "text b" }

ChunkLists == UNION { [1..n -> ChunkTexts] : n \in 0..MaxChunks }

\* The metadata research_topic passes for a paper.
MetadataOf(arxiv_id) == [ source_url |-> arxiv_id, title |-> arxiv_id, arxiv_id |-> arxiv_id ]

VectorInit ==
    /\ pc = "vector"
    /\ query = None
    /\ settings \in SettingsValues
    /\ g = EmptyDict
    /\ input = [call |-> None, doc_id |-> None, chunks |-> << >>]
    /\ result = None
    /\ Unused

\* A call of add_documents.
AddDocuments ==
    /\ pc = "vector"
    /\ \E doc_id \in DocIds, chunks \in ChunkLists :
        /\ input' = [call |-> "add_documents", doc_id |-> doc_id, chunks |-> chunks]
        /\ result' = add_documents_returns(collection, chunks, doc_id)
        /\ collection' = add_documents(collection, chunks, MetadataOf(doc_id), doc_id)
    /\ UNCHANGED << pc, query, settings, g, node, graph_input, pending, cur, step_count,
                    ws_sessions, sessions, invocations, steps, attempts,
                    client_connected, channel, sent, yielded, connections, delivered >>

\* A call of delete_document.
DeleteDocument ==
    /\ pc = "vector"
    /\ \E doc_id \in DocIds :
        /\ input' = [call |-> "delete_document", doc_id |-> doc_id, chunks |-> << >>]
        /\ collection' = delete_document(collection, doc_id)
    /\ result' = TRUE
    /\ UNCHANGED << pc, query, settings, g, node, graph_input, pending, cur, step_count,
                    ws_sessions, sessions, invocations, steps, attempts,
                    client_connected, channel, sent, yielded, connections, delivered >>

VectorNext ==
    \/ AddDocuments
    \/ DeleteDocument

VectorSpec == VectorInit /\ [][VectorNext]_vars

\* ------------------------------------------------------------- the claims

Range(seq) == { seq[i] : i \in 1..Len(seq) }

\* The states a session is held in: the graph's channels, the streaming
\* driver's current_state, and the entries of the two stores.
HeldStates ==
    (IF g = EmptyDict THEN {} ELSE { g })
    \cup (IF cur = EmptyDict THEN {} ELSE { cur })
    \cup { ws_sessions[s] : s \in DOMAIN ws_sessions }
    \cup { sessions[s] : s \in DOMAIN sessions }

\* C1: whenever the router is asked about a state with is_complete true, it
\* answers "end", whatever status, plan, current_task_index and error are.
C1_CompleteRoutesToEnd ==
    (pc = "routed" /\ g.is_complete) => result = "end"

\* A complete state with an empty plan, a stale index and an error was routed.
C1_Witness ==
    /\ pc = "routed"
    /\ g.is_complete
    /\ g.plan = << >>
    /\ g.current_task_index > 0
    /\ g.status = "error"
    /\ result = "end"

\* The decision table of the router, case by case (the cases are disjoint).
DecisionTable(state) ==
    CASE state.is_complete -> "end"
      [] ~state.is_complete /\ state.status = "error" -> "end"
      [] ~state.is_complete /\ state.status # "error" /\ state.plan = << >> -> "planner"
      [] ~state.is_complete /\ state.status # "error" /\ state.plan # << >>
            /\ state.current_task_index < Len(state.plan) -> "researcher"
      [] ~state.is_complete /\ state.status # "error" /\ state.plan # << >>
            /\ state.current_task_index >= Len(state.plan) -> "writer"

\* C2: for every state the router's answer is the one of the first-match-wins
\* table: complete -> end; else error -> end (also with an empty plan); else
\* empty plan -> planner (also with a stale index); else index < len(plan) ->
\* researcher; else writer.
C2_RouterIsDecisionTable ==
    pc = "routed" => result = DecisionTable(g)

\* A drained, non-empty plan without completion or error was routed to the writer.
C2_Witness ==
    /\ pc = "routed"
    /\ ~g.is_complete
    /\ g.status # "error"
    /\ g.plan # << >>
    /\ g.current_task_index >= Len(g.plan)
    /\ result = "writer"

\* C3: once the Plan step has run, every state the session is held in (graph
\* channels, current_state, both stores) has 0 <= current_task_index <= len(plan).
C3_IndexWithinPlan ==
    steps.planner >= 1 =>
        \A state \in HeldStates :
            /\ 0 <= state.current_task_index
            /\ state.current_task_index <= Len(state.plan)

\* A streaming session has drained a plan of two questions.
C3_Witness ==
    /\ steps.planner >= 1
    /\ pc = "ws_loop"
    /\ Len(cur.plan) = 2
    /\ cur.current_task_index = Len(cur.plan)

\* A Research step runs in this transition.
ResearchStepRuns == steps'.researcher = steps.researcher + 1

\* C4: a Research step entered with current_task_index < len(plan) leaves the
\* index exactly one greater, on every exit; no Research step lowers the index.
C4_ResearchAdvancesByOne ==
    [][ ResearchStepRuns =>
          /\ g'.current_task_index >= g.current_task_index
          /\ g.current_task_index < Len(g.plan) =>
                g'.current_task_index = g.current_task_index + 1 ]_vars

\* Two Research steps have run and advanced the index to 2, one through the
\* exception exit and one through the zero-results exit, in a run where a paper
\* was also processed... (the processed exit is part of C7's witness).
C4_Witness ==
    /\ steps.researcher = 2
    /\ g.current_task_index = 2
    /\ "Error researching question" \in Range(g.logs)
    /\ "No papers found" \in Range(g.logs)

\* Each node has run at most as often as one pass over the plan allows.
StepBudget ==
    /\ steps.planner <= 1
    /\ steps.writer <= 1
    /\ steps.researcher <= Len(Get(g, "plan", << >>))

\* C5: a streaming run reaches the router's "end" (the graph's END) after
\* finitely many steps, with at most one Plan step, one Research step per
\* sub-question and one Write step, whatever the collaborators do.
C5_StreamingRunEnds ==
    []StepBudget /\ <>(node = "END")

\* A streaming run over a two-question plan has ended after 1 + 2 + 1 steps.
C5_Witness ==
    /\ pc = "ws_done"
    /\ node = "END"
    /\ steps = [planner |-> 1, researcher |-> 2, writer |-> 1]

\* plan, documents and current_task_index of a state.
Frozen(state) ==
    << Get(state, "plan", << >>), Documents(state), Get(state, "current_task_index", 0) >>

StaysComplete(before, after) ==
    IsComplete(before) => (IsComplete(after) /\ Frozen(after) = Frozen(before))

\* C6: once is_complete is true in a held state, it stays true there, plan,
\* documents and current_task_index stay as they are, and no node runs again.
C6_CompleteIsTerminal ==
    [][ /\ StaysComplete(g, g')
        /\ StaysComplete(cur, cur')
        /\ StaysComplete(Get(ws_sessions, SID, EmptyDict), Get(ws_sessions', SID, EmptyDict))
        /\ StaysComplete(Get(sessions, SID, EmptyDict), Get(sessions', SID, EmptyDict))
        /\ (\E state \in HeldStates : IsComplete(state)) => steps' = steps ]_vars

\* A complete request/response session is stored and waits for triggers.
C6_Witness ==
    /\ pc = "rest_wait"
    /\ SID \in DOMAIN sessions
    /\ sessions[SID].is_complete
    /\ sessions[SID].documents # << >>

\* The documents of the attempts that succeeded, in order.
OkDocuments(tried) ==
    LET ok == SelectSeq(tried, LAMBDA a : a.ok)
    IN  [ i \in 1..Len(ok) |-> DocumentInfo(ok[i].paper) ]

\* C7: the documents of a run are exactly the papers whose processing
\* succeeded, in order, after the documents the run started with: a paper that
\* failed is missing, every other paper of the same call is there.
C7_DocumentsAreSuccesses ==
    g # EmptyDict =>
        /\ g.documents = graph_input.documents \o OkDocuments(attempts)
        /\ Len(g.documents) =
              Len(graph_input.documents) + Cardinality({ i \in 1..Len(attempts) : attempts[i].ok })

\* In one call the first paper failed and the second was added.
C7_Witness ==
    /\ Len(attempts) = 2
    /\ attempts[1].paper.question = attempts[2].paper.question
    /\ ~attempts[1].ok
    /\ attempts[2].ok
    /\ Len(g.documents) = 1

DocumentsGrow(before, after) == IsPrefix(Documents(before), Documents(after))

\* C8: in every step of the graph, every hand merge and every persist (the
\* except branch included), the documents before are a prefix of those after.
C8_DocumentsOnlyGrow ==
    [][ /\ steps' # steps => DocumentsGrow(g, g')
        /\ DocumentsGrow(cur, cur')
        /\ DocumentsGrow(Get(ws_sessions, SID, EmptyDict), Get(ws_sessions', SID, EmptyDict))
        /\ DocumentsGrow(Get(sessions, SID, EmptyDict), Get(sessions', SID, EmptyDict)) ]_vars

\* Two Research steps have each added a document, merged and persisted.
C8_Witness ==
    /\ pc = "ws_loop"
    /\ step_count = 3
    /\ Len(cur.documents) = 2
    /\ cur.documents[1].arxiv_id[1] # cur.documents[2].arxiv_id[1]
    /\ ws_sessions[SID].documents = cur.documents

\* The text is one non-empty JSON array, bare or inside a fenced block.
IsArrayText(text, array) ==
    /\ array.t = "array"
    /\ array.items # << >>
    /\ text \in { << JsonLine(array) >>, << FenceLine, JsonLine(array), FenceLine >> }

\* C9: when the completion returns a non-empty JSON array, the Plan step's
\* update holds the array's elements as strings in the same order as plan,
\* current_task_index 0, status researching, one log entry and no error.
C9_PlanIsTheArray ==
    \A array \in JsonArrays :
        (pc = "planned" /\ ~input.raises /\ IsArrayText(input.text, array)) =>
            /\ DOMAIN result = { "plan", "current_task_index", "status", "logs" }
            /\ Len(result.plan) = Len(array.items)
            /\ \A i \in 1..Len(array.items) : result.plan[i] = Str(array.items[i])
            /\ result.current_task_index = 0
            /\ result.status = "researching"
            /\ Len(result.logs) = 1

\* The stub returned a two-question array and the plan has length 2.
C9_Witness ==
    /\ pc = "planned"
    /\ input = Returns(<< JsonLine([t |-> "array", items |-> << StringItem, NumberItem >>]) >>)
    /\ result.plan = << "A", "1" >>

\* C10: when the (cleaned) completion text does not parse as JSON, the Plan
\* step's update is plan = [original_query], current_task_index 0, status
\* researching, and holds no error.
C10_UnparseableFallsBack ==
    (pc = "planned" /\ ~input.raises /\ ~JsonParses(CleanResponse(input.text))) =>
        /\ DOMAIN result = { "plan", "current_task_index", "status", "logs" }
        /\ result.plan = << g.original_query >>
        /\ result.current_task_index = 0
        /\ result.status = "researching"

\* Prose came back for query Q2 and the plan is the query alone.
C10_Witness ==
    /\ pc = "planned"
    /\ input = Returns(<< ProseLine >>)
    /\ g.original_query = "Q2"
    /\ result.plan = << "Q2" >>

\* C11: whenever the completion returned a text (it did not raise), the Plan
\* step's update has status researching and a non-empty plan and no error:
\* status error comes from a raising completion only.
C11_ReturnedTextIsRecovered ==
    (pc = "planned" /\ ~input.raises) =>
        /\ result.status = "researching"
        /\ "plan" \in DOMAIN result
        /\ result.plan # << >>
        /\ "error" \notin DOMAIN result

\* The error message str(e) of a raising completion (the two ValueErrors of the
\* plan validation have messages of their own).
CompletionRaised(state) == Get(state, "error", None) = "completion raised"

\* C12: in a streaming run whose Plan step met a raising completion, the
\* step's update is exactly status = error, error = the message and a log (no
\* plan); the graph is then at END, no Research or Write step has run, and
\* plan and documents are empty in every state the session is held in.
C12_RaisingCompletionEndsRun ==
    /\ (pending # << >> /\ CompletionRaised(Head(pending).update)) =>
            /\ Head(pending).node = "planner"
            /\ DOMAIN Head(pending).update = { "status", "error", "logs" }
            /\ Head(pending).update.status = "error"
    /\ (pc \in { "ws_loop", "ws_done" } /\ CompletionRaised(g)) =>
            /\ g.status = "error"
            /\ node = "END"
            /\ steps = [planner |-> 1, researcher |-> 0, writer |-> 0]
            /\ \A state \in HeldStates :
                  Get(state, "plan", << >>) = << >> /\ Documents(state) = << >>

\* A streaming run has ended after a Plan step that met a raising completion.
C12_Witness ==
    /\ pc = "ws_done"
    /\ CompletionRaised(g)
    /\ CompletionRaised(cur)
    /\ steps.planner = 1
    /\ node = "END"

\* A Write step runs in this transition.
WriteStepRuns == steps'.writer = steps.writer + 1

\* The status a Research step entered at index idx leaves behind.
LastQuestionRule(idx, plan) == IF idx + 1 = Len(plan) THEN "writing" ELSE "researching"

\* C13: a Research step entered with current_task_index < len(plan) whose
\* search returns zero results returns exactly current_task_index + 1, the
\* status of the last-question rule and logs: no documents and no error, so the
\* accumulated documents and error are as before under the graph's reducers
\* and under the driver's hand merge.
C13_ZeroResultsSkipsQuestion ==
    [][ (ResearchStepRuns /\ g.current_task_index < Len(g.plan)
            /\ ~input'.raises /\ input'.n = 0) =>
          /\ DOMAIN result' = { "current_task_index", "status", "logs" }
          /\ result'.current_task_index = g.current_task_index + 1
          /\ result'.status = LastQuestionRule(g.current_task_index, g.plan)
          /\ g'.documents = g.documents
          /\ MergeUpdate(g, result').documents = g.documents
          /\ g'.error = g.error ]_vars

\* The second question's search found nothing after the first had given a
\* document: the document is still there and the status is writing.
C13_Witness ==
    /\ steps = [planner |-> 0, researcher |-> 2, writer |-> 0]
    /\ input = [raises |-> FALSE, n |-> 0]
    /\ Len(g.plan) = 2
    /\ Len(g.documents) = 1
    /\ g.current_task_index = 2
    /\ result.status = "writing"

\* C14: a Research step entered with current_task_index < len(plan) whose
\* search raises returns exactly current_task_index + 1, the status of the
\* last-question rule and logs; status is not error, is_complete stays false,
\* error is untouched, and the router goes on to the next question or the writer.
C14_ResearchFailureSkipsQuestion ==
    [][ (ResearchStepRuns /\ g.current_task_index < Len(g.plan) /\ input'.raises) =>
          /\ DOMAIN result' = { "current_task_index", "status", "logs" }
          /\ result'.current_task_index = g.current_task_index + 1
          /\ result'.status = LastQuestionRule(g.current_task_index, g.plan)
          /\ g'.status # "error"
          /\ ~IsComplete(g')
          /\ g'.error = g.error
          /\ g'.documents = g.documents
          /\ route_next_step(g') =
                IF g.current_task_index + 1 = Len(g.plan) THEN "writer" ELSE "researcher" ]_vars

\* The search raised for the first of two questions and the session goes on
\* researching.
C14_Witness ==
    /\ steps = [planner |-> 0, researcher |-> 1, writer |-> 0]
    /\ input = [raises |-> TRUE, n |-> 0]
    /\ Len(g.plan) = 2
    /\ g.current_task_index = 1
    /\ g.status = "researching"
    /\ route_next_step(g) = "researcher"

\* C15: on an n-item plan entered at index 0, after the k-th Research call
\* (k <= n) the index is k and the call returned researching for k < n and
\* writing for k = n, whatever the calls met; so the router asks for the
\* researcher exactly n times.
C15_PlanDrainedInNCalls ==
    /\ [][ (ResearchStepRuns /\ steps'.researcher <= Len(g.plan)) =>
              /\ g.current_task_index = steps.researcher
              /\ g'.current_task_index = steps'.researcher
              /\ result'.status =
                    IF steps'.researcher < Len(g.plan) THEN "researching" ELSE "writing" ]_vars
    /\ [] ( steps.writer = 0 =>
               (route_next_step(g) = "researcher" <=> steps.researcher < Len(g.plan)) )

\* Two calls have drained a two-item plan: the first found a paper, the second
\* failed, and the second returned writing.
C15_Witness ==
    /\ steps = [planner |-> 0, researcher |-> 2, writer |-> 0]
    /\ Len(g.plan) = 2
    /\ Len(g.documents) >= 1
    /\ input = [raises |-> TRUE, n |-> 0]
    /\ result.status = "writing"

\* The report of a state: the content of its last message.
ReportOf(state) == state.messages[Len(state.messages)].content

\* Something in the try block of the Write step raised.
SynthesisRaised(inp) ==
    inp.synthesis = "raises" \/ (~settings.SKIP_VECTOR_STORE /\ inp.synthesis = "retrieval raises")

\* C16: a Write step whose synthesis succeeds returns exactly messages (one
\* assistant message holding the report), is_complete true, status completed
\* and logs: the message is appended to messages, error is untouched, and
\* plan, documents and current_task_index are as before.
C16_WriteSuccess ==
    [][ (WriteStepRuns /\ input'.synthesis = "ok") =>
          /\ DOMAIN result' = { "messages", "is_complete", "status", "logs" }
          /\ g'.messages = Append(g.messages, [role |-> "assistant", content |-> LlmReport])
          /\ g'.is_complete
          /\ g'.status = "completed"
          /\ g'.error = g.error
          /\ Frozen(g') = Frozen(g) ]_vars

\* The synthesis succeeded over a gathered document.
C16_Witness ==
    /\ steps.writer = 1
    /\ input = [synthesis |-> "ok"]
    /\ g.documents # << >>
    /\ Len(g.messages) = 1
    /\ g.status = "completed"
    /\ g.error = None

\* C17: a Write step in which something raises while documents is non-empty
\* leaves is_complete true, status completed, error set, and a report as the
\* last message that holds the title of every accumulated document.
C17_FallbackReport ==
    [][ (WriteStepRuns /\ SynthesisRaised(input') /\ g.documents # << >>) =>
          /\ g'.is_complete
          /\ g'.status = "completed"
          /\ g'.error # None
          /\ g'.messages # << >>
          /\ ReportOf(g').kind = "fallback"
          /\ ReportOf(g').titles # << >>
          /\ \A i \in 1..Len(g.documents) :
                g.documents[i].title \in Range(ReportOf(g').titles) ]_vars

\* The synthesis raised over two documents of different titles.
C17_Witness ==
    /\ steps.writer = 1
    /\ SynthesisRaised(input)
    /\ Len(g.documents) = 2
    /\ g.documents[1].title # g.documents[2].title
    /\ ReportOf(g).titles = << g.documents[1].title, g.documents[2].title >>

\* C18: a Write step in which something raises while documents is empty leaves
\* status error, is_complete true and error set; its update holds no message
\* and messages is as before.
C18_WriteFailure ==
    [][ (WriteStepRuns /\ SynthesisRaised(input') /\ g.documents = << >>) =>
          /\ g'.status = "error"
          /\ g'.is_complete
          /\ g'.error # None
          /\ "messages" \notin DOMAIN result'
          /\ g'.messages = g.messages ]_vars

\* The synthesis raised after a research that gathered nothing.
C18_Witness ==
    /\ steps.writer = 1
    /\ SynthesisRaised(input)
    /\ g.documents = << >>
    /\ g.messages = << >>
    /\ g.status = "error"
    /\ g.is_complete

\* The last message handed to safe_send.
LastAttempt(history) == history[Len(history)]

\* What the loop body does for one event: the stored entry holds the update
\* merged into the running state (documents and logs concatenated, every other
\* updated key replaced, every other key kept), and the progress message of
\* this step, handed to safe_send in the same step, reports that entry.
StepPersistedThenPushed ==
    step_count' = step_count + 1 =>
        LET update == Head(pending).update
            stored == ws_sessions'[SID]
            pushed == LastAttempt(sent').message
        IN  /\ \A k \in DOMAIN update :
                  stored[k] = IF k \in { "documents", "logs" }
                              THEN Get(cur, k, << >>) \o update[k]
                              ELSE update[k]
            /\ \A k \in DOMAIN cur \ DOMAIN update : stored[k] = cur[k]
            /\ Len(sent') = Len(sent) + 1
            /\ pushed.type = "progress"
            /\ pushed.step = step_count'
            /\ pushed.node = Head(pending).node
            /\ pushed.status = stored.status
            /\ pushed.plan = stored.plan
            /\ pushed.current_task_index = stored.current_task_index
            /\ Len(pushed.documents) = Len(stored.documents)

\* Whatever progress message the client has received, the stored entry is at
\* least as far: the same plan, an index not behind, the documents of the
\* message a prefix of the stored ones, and at least as many steps counted.
PollSeesReceivedProgress ==
    \A i \in 1..Len(sent) :
        (sent[i].message.type = "progress" /\ sent[i].outcome = "sent") =>
            LET polled == get_session(ws_sessions, SID)
                pushed == sent[i].message
            IN  /\ polled.found
                /\ polled.plan = pushed.plan
                /\ polled.current_task_index >= pushed.current_task_index
                /\ Len(pushed.documents) <= Len(polled.documents)
                /\ \A d \in 1..Len(pushed.documents) :
                      /\ polled.documents[d].title = pushed.documents[d].title
                      /\ polled.documents[d].arxiv_id = pushed.documents[d].arxiv_id
                /\ step_count >= pushed.step

\* C19: in streaming mode every step's fully merged state is in the session
\* store when that step's progress message is handed to the push channel, so a
\* client that has received the progress of step k polls a state that
\* includes step k's update.
C19_PersistBeforeProgress ==
    [][StepPersistedThenPushed]_vars /\ []PollSeesReceivedProgress

\* The client has received the progress of a Research step that added a
\* document, and the stored entry holds the document.
C19_Witness ==
    /\ pc = "ws_loop"
    /\ step_count = 2
    /\ LastAttempt(sent).outcome = "sent"
    /\ LastAttempt(sent).message.node = "researcher"
    /\ Len(LastAttempt(sent).message.documents) = 1
    /\ Len(ws_sessions[SID].documents) = 1
    /\ ws_sessions[SID].current_task_index = 1

\* The run has gone through: the router's end is reached, every event was
\* taken, the steps are those of one pass over the plan, and a poll finds the
\* report the Write step produced.
RunWentThrough ==
    /\ node = "END"
    /\ route_next_step(g) = "end"
    /\ pending = << >>
    /\ step_count = steps.planner + steps.researcher + steps.writer
    /\ steps.planner = 1
    /\ g.plan # << >> => (steps.researcher = Len(g.plan) /\ steps.writer = 1)
    /\ get_session(ws_sessions, SID).found
    /\ g.messages # << >> => get_session(ws_sessions, SID).report = ReportOf(g)

\* C20: whenever the push channel fails (before the first send, between two
\* steps, at the last send), the streaming run still comes to its end with
\* every step the router asks for executed, and from then on a poll of the
\* session store returns the Write step's report.
C20_ChannelFailureIsNotFatal ==
    <>(pc = "ws_done") /\ [](pc = "ws_done" => RunWentThrough)

\* The channel failed at the first step's progress message; the run went on
\* to a report that a poll returns, and the later messages were not attempted.
C20_Witness ==
    /\ pc = "ws_done"
    /\ Len(sent) = 6
    /\ sent[1].outcome = "sent"
    /\ sent[2].outcome = "failed"
    /\ sent[6].outcome = "skipped"
    /\ sent[6].message.type = "completed"
    /\ steps = [planner |-> 1, researcher |-> 2, writer |-> 1]
    /\ get_session(ws_sessions, SID).report = LlmReport

\* The updates of a sequence of yielded events, merged one by one.
RECURSIVE MergeAll(_, _)
MergeAll(current_state, events) ==
    IF events = << >> THEN current_state
    ELSE MergeAll(MergeUpdate(current_state, Head(events).update), Tail(events))

\* The running state after the first k steps of this run.
Snapshot(k) == MergeAll(create_initial_state(SID, query), SubSeq(yielded, 1, k))

\* The nodes of the steps of a sequence of events or of progress messages.
NodesOf(events) == [ i \in 1..Len(events) |-> events[i].node ]

\* The progress messages handed to safe_send, whatever became of them.
ProgressAttempts ==
    SelectSeq([ i \in 1..Len(sent) |-> sent[i].message ], LAMBDA m : m.type = "progress")

\* C21: the steps a streaming run executes and every field of the entry it
\* leaves in the store are a function of the query and of what the
\* collaborators returned (the events the graph yielded) alone: whichever
\* sends failed or were skipped, the run takes the graph to its end, processes
\* each yielded step once and in order, and stores the entry obtained by
\* merging those steps' updates, so that two runs differing only in send
\* failures execute the same steps and leave the same entry.
C21_SendFailuresLeaveNoTrace ==
    pc = "ws_done" =>
        /\ node = "END"
        /\ step_count = Len(yielded)
        /\ NodesOf(ProgressAttempts) = NodesOf(yielded)
        /\ ws_sessions[SID] = FinalEntry(Snapshot(Len(yielded)), query)

\* A run whose first progress message failed has left the entry of a full run:
\* two documents and the report.
C21_Witness ==
    /\ pc = "ws_done"
    /\ sent[2].outcome = "failed"
    /\ NodesOf(yielded) = << "planner", "researcher", "researcher", "writer" >>
    /\ Len(ws_sessions[SID].documents) = 2
    /\ ws_sessions[SID].report = LlmReport

\* C22: a send that fails does not raise into the run loop (the loop goes on
\* to its next step); safe_send returns a boolean, true exactly for a message
\* that went out; after the first failed send the session's liveness flag is
\* false for as long as the run lasts, and every later message is skipped
\* without a send being attempted, safe_send returning false.
C22_FailedSendStopsSending ==
    /\ \A i \in 1..Len(sent) :
          /\ sent[i].outcome \in { "sent", "failed", "skipped" }
          /\ sent[i].returned \in BOOLEAN
          /\ sent[i].returned <=> sent[i].outcome = "sent"
          /\ sent[i].outcome = "failed" =>
                \A j \in (i + 1)..Len(sent) :
                    sent[j].outcome = "skipped" /\ ~sent[j].returned
    /\ (pc \in { "ws_started", "ws_loop" } /\ \E i \in 1..Len(sent) : sent[i].outcome = "failed") =>
          /\ SID \in DOMAIN client_connected
          /\ ~client_connected[SID]
    /\ (sent # << >> /\ LastAttempt(sent).outcome = "failed"
            /\ LastAttempt(sent).message.type = "progress") => pc = "ws_loop"

\* The started message failed, and the four progress messages after it were
\* skipped.
C22_Witness ==
    /\ pc = "ws_loop"
    /\ Len(sent) = 5
    /\ sent[1].outcome = "failed"
    /\ \A j \in 2..5 : sent[j].outcome = "skipped" /\ ~sent[j].returned
    /\ ~client_connected[SID]

\* The messages handed to safe_send so far are in order: started first, then
\* the progress of step 1, 2, ..., then (only once the driver is done) one
\* terminal message, completed or error, and nothing after it.
EventOrder ==
    /\ pc # "idle" => sent # << >>
    /\ \A i \in 1..Len(sent) :
          /\ i = 1 <=> sent[i].message.type = "started"
          /\ sent[i].message.type \in { "started", "progress", "completed", "error" }
          /\ sent[i].message.type = "progress" => sent[i].message.step = i - 1
          /\ sent[i].message.type \in { "completed", "error" } => (i = Len(sent) /\ pc = "ws_done")
    /\ pc = "ws_done" => LastAttempt(sent).message.type \in { "completed", "error" }

\* C23: for every streaming session the messages handed to the push channel
\* (sent, failed or skipped) are exactly one started, then progress messages
\* whose step index goes up by 1 from 1, then exactly one terminal message,
\* completed or error, which the run does reach.
C23_EventOrder ==
    []EventOrder /\ <>(pc = "ws_done")

\* A run of four steps ended in an error message after a client had left.
C23_Witness ==
    /\ pc = "ws_done"
    /\ Len(sent) = 4
    /\ sent[2].message.type = "progress" /\ sent[2].message.step = 1
    /\ sent[3].message.type = "progress" /\ sent[3].message.step = 2
    /\ sent[3].outcome = "failed"
    /\ sent[4].message.type = "error"
    /\ sent[4].outcome = "skipped"

\* C24: when a streaming run has ended, the status in the session store, and
\* so the one a poll reports to the client, is the status the last step set:
\* error when the Plan step failed or the Write step failed without documents.
C24_TerminalStatusIsLastStep ==
    pc = "ws_done" =>
        /\ ws_sessions[SID].status = g.status
        /\ get_session(ws_sessions, SID).status = g.status

\* The except branch runs in this transition.
ExceptBranchRuns ==
    /\ pc = "ws_loop"
    /\ pc' = "ws_done"
    /\ LastAttempt(sent').message.type = "error"

\* What the except branch leaves: the stored entry with every field persisted
\* so far, status error and the message; the error message handed to the
\* push channel; no step run; the other session's entry as it was.
ExceptionHandled ==
    ExceptBranchRuns =>
        /\ DOMAIN ws_sessions'[SID] = DOMAIN ws_sessions[SID] \cup { "status", "error" }
        /\ \A k \in DOMAIN ws_sessions[SID] \ { "status", "error" } :
              ws_sessions'[SID][k] = ws_sessions[SID][k]
        /\ ws_sessions'[SID].status = "error"
        /\ ws_sessions'[SID].error = LastAttempt(sent').message.message
        /\ Len(sent') = Len(sent) + 1
        /\ steps' = steps
        /\ DOMAIN ws_sessions' = DOMAIN ws_sessions
        /\ ws_sessions'[OtherSID] = ws_sessions[OtherSID]

\* Once the driver is done nothing of the session moves any more.
DoneIsDone ==
    pc = "ws_done" => (steps' = steps /\ ws_sessions' = ws_sessions /\ pc' = pc)

\* C25: an exception that escapes during a streaming run is caught by the run
\* loop: the store entry is kept with every field persisted so far, with
\* status error and the error message; an error message is handed to the
\* push channel; no further step of the session runs; other sessions'
\* entries are unchanged.
C25_ExceptionIsCaught ==
    [][ExceptionHandled /\ DoneIsDone]_vars /\ [](ws_sessions[OtherSID] = EarlierEntry)

\* An exception escaped after the first Research step: the entry keeps the
\* plan and the document and has status error, with a step still to run.
C25_Witness ==
    /\ pc = "ws_done"
    /\ node = "researcher"
    /\ ws_sessions[SID].status = "error"
    /\ ws_sessions[SID].error = "exception"
    /\ Len(ws_sessions[SID].plan) = 2
    /\ Len(ws_sessions[SID].documents) = 1
    /\ LastAttempt(sent).message = ErrorMessage("exception")
    /\ ws_sessions[OtherSID] = EarlierEntry

\* The entry holds the running state after k whole steps: every field of that
\* state is there with its value (status and error are the driver's to write
\* over when the run ends), and a poll returns the fields of that state.
WholeStepSnapshot(entry, k) ==
    /\ DOMAIN Snapshot(k) \subseteq DOMAIN entry
    /\ \A key \in DOMAIN Snapshot(k) \ { "status", "error" } : entry[key] = Snapshot(k)[key]
    /\ get_session(ws_sessions, SID).plan = Snapshot(k).plan
    /\ get_session(ws_sessions, SID).current_task_index = Snapshot(k).current_task_index
    /\ Len(get_session(ws_sessions, SID).documents) = Len(Snapshot(k).documents)

C26_OneStepPerTrigger ==
    pc \in { "rest_invoke", "rest_wait" } =>
        /\ steps.planner + steps.researcher + steps.writer <= invocations
        /\ (pc = "rest_wait" /\ invocations = 1 /\ SID \in DOMAIN sessions
                /\ sessions[SID].plan # << >>) =>
              /\ sessions[SID].current_task_index = 0
              /\ sessions[SID].documents = << >>
              /\ ~sessions[SID].is_complete

\* C27: once a session's stored state has status error (and is not
\* complete), no trigger makes a step of it run: a next-step request leaves
\* plan, index, documents and every other field as they are, and the Plan
\* step is not run again.
C27_ErrorSessionIsNotReplanned ==
    [][ (SID \in DOMAIN sessions /\ sessions[SID].status = "error"
            /\ ~IsComplete(sessions[SID]))
        => (steps' = steps /\ sessions' = sessions) ]_vars

\* A handler answers a request in this transition without running the graph.
Answered == pc' = pc /\ pc \in { "idle", "rest_wait" }

\* The store the request's handler looks the id up in.
StoreOf(request) == IF request.handler = "ws_get_session" THEN ws_sessions ELSE sessions

\* A request naming an id that is not in the store is answered with 404; no
\* entry is created, changed or removed, and no step runs.
UnknownIdIsNotFound ==
    (Answered /\ input'.session_id \notin DOMAIN StoreOf(input')) =>
        /\ result' = IF input'.handler = "ws_get_session" THEN [found |-> FALSE] ELSE NotFound
        /\ sessions' = sessions
        /\ ws_sessions' = ws_sessions
        /\ steps' = steps
        /\ g' = g

\* A delete of an id that is in the store removes that entry and no other.
DeleteRemovesOne ==
    (Answered /\ input'.handler = "delete_session" /\ input'.session_id \in DOMAIN sessions) =>
        /\ result'.session_id = input'.session_id
        /\ DOMAIN sessions' = DOMAIN sessions \ { input'.session_id }
        /\ \A k \in DOMAIN sessions' : sessions'[k] = sessions[k]
        /\ ws_sessions' = ws_sessions
        /\ research_get_session(sessions', input'.session_id) = NotFound
        /\ delete_session(sessions', input'.session_id) = NotFound

\* C28: a get-session, next-step or delete-session request for an id that is
\* not in the store yields not-found, creates, changes and deletes no entry
\* and runs no step; after a successful delete-session the same id is
\* not-found and the other entries are unchanged.
C28_NotFoundAndDelete ==
    [][UnknownIdIsNotFound /\ DeleteRemovesOne]_vars

\* This session's entry, the state of a finished run, has just been deleted:
\* the id is not found any more, and the earlier session's entry is there
\* as it was.
C28_Witness ==
    /\ input = Request("delete_session", SID)
    /\ result = [ message |-> "Session deleted", session_id |-> SID ]
    /\ SID \notin DOMAIN sessions
    /\ research_get_session(sessions, SID) = NotFound
    /\ sessions = (OtherSID :> EarlierState)

\* The entries of the collection that come from the papers of this session.
OwnChunks(session_id) ==
    { e \in collection :
        \E i \in 1..Len(ws_sessions[session_id].documents) :
            ws_sessions[session_id].documents[i].arxiv_id = e.metadata.doc_id }

\* C29: sessions that run side by side share the session store alone: what a
\* Write step of a session retrieves from the vector index is what the session
\* run alone would retrieve, entries of its own papers, nothing that a step of
\* the other session produced; and a step of one session leaves the other's
\* store entry as it is.
C29_SessionsShareOnlyTheStore ==
    /\ [](~input.skipped => input.context \subseteq OwnChunks(input.session_id))
    /\ [][ \A s \in SessionIds :
              ws_sessions'[s] # ws_sessions[s] =>
                  \A other \in SessionIds \ { s } : ws_sessions'[other] = ws_sessions[other] ]_vars

\* The ids of the chunks in the collection.
ChunkIds(coll) == { e.id : e \in coll }

\* C31: a call of add_documents for a doc_id that has chunks in the index
\* returns 0 and leaves the index as it is, with the same chunk count, the
\* same chunk ids and the same texts, whatever chunks the call passes.
C31_AddDocumentsIsIdempotent ==
    [][ (input'.call = "add_documents"
            /\ \E e \in collection : e.metadata.doc_id = input'.doc_id)
        => /\ result' = 0
           /\ collection' = collection
           /\ Cardinality(collection') = Cardinality(collection)
           /\ ChunkIds(collection') = ChunkIds(collection) ]_vars

\* A document indexed with one chunk was added again with two other chunks:
\* 0 came back, and the index holds the one chunk.
C31_Witness ==
    /\ input.call = "add_documents"
    /\ input.doc_id = << "Q1", 1 >>
    /\ input.chunks = << "text b", "text b" >>
    /\ result = 0
    /\ { e \in collection : e.metadata.doc_id = << "Q1", 1 >> }
          = { [ id       |-> << << "Q1", 1 >>, 0 >>,
                document |-> "text a",
                metadata |-> [ source_url |-> << "Q1", 1 >>, title |-> << "Q1", 1 >>,
                               doc_id |-> << "Q1", 1 >>, chunk_index |-> 0 ] ] }

\* C32: the Plan step called twice on the same state with a completion stub
\* that does the same at both calls returns the same update, and the update
\* is the one the fresh state of the same original_query gets from that
\* completion: the same plan, current_task_index 0 and the same status,
\* whatever plan, index and status the state held and whether the step had
\* been called before.
C32_PlanStepIsAFunction ==
    /\ \A i \in 1..Len(result) :
          result[i] = plan_research(create_initial_state(SID, g.original_query), input)
    /\ Len(result) = 2 => result[1] = result[2]
    /\ \A i \in 1..Len(result) :
          "plan" \in DOMAIN result[i] => result[i].current_task_index = 0

\* A state with a plan of two, index 1 and status error was planned twice,
\* and both calls returned the plan of the completion's array.
C32_Witness ==
    /\ Len(result) = 2
    /\ g.plan = << "A", "B" >>
    /\ g.current_task_index = 1
    /\ g.status = "error"
    /\ ~input.raises
    /\ result[1].status = "researching"
    /\ Len(result[1].plan) = 2
    /\ result[2].plan = result[1].plan
    /\ result[1].plan # g.plan

\* The fields that are set when a session is created.
CreationFields == { "session_id", "original_query" }

\* The state is the session's: the id it was created under and the query it
\* was created with.
IsOfThisSession(state) ==
    state # EmptyDict => (state.session_id = SID /\ state.original_query = query)

\* C33: session_id and original_query of a session are those of its creation
\* for good: no update a step has yielded (Plan, Research, Write, whichever
\* exit they took, nor the Research step's short-circuit on the drained plan)
\* holds either field, and the graph's state, the driver's running state and
\* every entry a persist has stored under the session's id hold the session's
\* id and the query it was created with; every entry is stored under its own
\* session_id.
C33_CreationFieldsAreImmutable ==
    /\ \A i \in 1..Len(yielded) : DOMAIN yielded[i].update \cap CreationFields = {}
    /\ IsOfThisSession(g)
    /\ IsOfThisSession(cur)
    /\ SID \in DOMAIN ws_sessions => IsOfThisSession(ws_sessions[SID])
    /\ \A s \in DOMAIN ws_sessions : ws_sessions[s].session_id = s
    /\ (cur # EmptyDict /\ cur.plan # << >> /\ cur.current_task_index >= Len(cur.plan)) =>
          \A search \in SearchOutcomes :
              DOMAIN research_topic(cur, settings.LIGHTWEIGHT_MODE, search,
                                    [r \in 1..SEARCH_MAX_RESULTS |-> "ok"])
                  \cap CreationFields = {}

\* A run on Q2 has gone through four steps and its final persist: the entry is
\* under the session's id with the query Q2.
C33_Witness ==
    /\ pc = "ws_done"
    /\ query = "Q2"
    /\ Len(yielded) = 4
    /\ "documents" \in DOMAIN yielded[3].update
    /\ yielded[3].update.documents # << >>
    /\ ws_sessions[SID].session_id = SID
    /\ ws_sessions[SID].original_query = "Q2"
    /\ ws_sessions[SID].status = "completed"

\* ------------------------------------------------------------------- C34
\* The Plan step of the streaming run left a plan (its first event carries one).
PlanSucceeded ==
    /\ Len(yielded) >= 1
    /\ yielded[1].node = "planner"
    /\ "plan" \in DOMAIN yielded[1].update

\* planner, one researcher per item of the plan, writer.
StepSequence(plan) ==
    << "planner" >> \o [ i \in 1..Len(plan) |-> "researcher" ] \o << "writer" >>

\* The k-th researcher step took up the k-th sub-question: it leaves the index
\* at k and every document it adds is a paper found for plan[k].
InPlanOrder ==
    \A k \in 2..Len(yielded) :
        yielded[k].node = "researcher" =>
            /\ "current_task_index" \in DOMAIN yielded[k].update
            /\ yielded[k].update.current_task_index = k - 1
            /\ k - 1 <= Len(g.plan)
            /\ \A d \in 1..Len(Documents(yielded[k].update)) :
                   yielded[k].update.documents[d].arxiv_id[1] = g.plan[k - 1]

\* One step at a time: every step so far yielded its one event, and the
\* driver holds at most the event of the step that ran last.
OneAtATime ==
    /\ steps.planner + steps.researcher + steps.writer = Len(yielded)
    /\ Len(pending) <= 1

RanToEnd ==
    /\ node = "END"
    /\ NodesOf(yielded) = StepSequence(g.plan)

\* C34: a streaming run whose Plan step left an n-item plan executes planner,
\* then researcher n times on the sub-questions in plan order, then writer,
\* then ends; one step runs at a time and the writer never runs while
\* current_task_index < len(plan).
C34_StepSequence ==
    /\ [](PlanSucceeded => /\ IsPrefix(NodesOf(yielded), StepSequence(g.plan))
                           /\ InPlanOrder
                           /\ OneAtATime)
    /\ [][WriteStepRuns => g.current_task_index >= Len(g.plan)]_vars
    /\ (PlanSucceeded ~> RanToEnd)

\* A run over a two-question plan is over: four steps, the first researcher
\* step added a paper of the first question, the second one of the second.
C34_Witness ==
    /\ pc = "ws_done"
    /\ PlanSucceeded
    /\ Len(g.plan) = 2
    /\ NodesOf(yielded) = << "planner", "researcher", "researcher", "writer" >>
    /\ Len(Documents(yielded[2].update)) = 1
    /\ Len(Documents(yielded[3].update)) = 1
    /\ g.documents[1].arxiv_id[1] = g.plan[1]
    /\ g.documents[2].arxiv_id[1] = g.plan[2]

\* ------------------------------------------------------------------- C35
\* What the safety check of research_topic returns.
SafetyExit ==
    [ status |-> "writing", logs |-> << "All research questions completed" >> ]

\* The fields the safety exit must leave alone.
DrainedFrame(state) ==
    << Get(state, "current_task_index", 0), Get(state, "plan", << >>),
       Get(state, "is_complete", FALSE), Get(state, "error", None),
       Documents(state) >>

\* C35: a Research step entered with current_task_index >= len(plan) returns
\* only status = writing and one log entry, whatever a search would have
\* answered: no paper is taken up, no document is added, and
\* current_task_index, plan, is_complete and error stay as they were.
C35_SafetyExit ==
    [][ (ResearchStepRuns /\ g.current_task_index >= Len(g.plan)) =>
           /\ result' = SafetyExit
           /\ \A search \in SearchOutcomes, fate \in FateMaps :
                  research_topic(g, settings.LIGHTWEIGHT_MODE, search, fate) = SafetyExit
           /\ attempts' = attempts
           /\ DrainedFrame(g') = DrainedFrame(g)
           /\ g'.status = "writing"
           /\ g'.logs = Append(g.logs, "All research questions completed") ]_vars

\* A two-item plan was drained by two calls and the step was called a third
\* time, with a search that would have found three papers.
C35_Witness ==
    /\ steps.researcher = 3
    /\ Len(g.plan) = 2
    /\ g.current_task_index = 2
    /\ input = [raises |-> FALSE, n |-> 3]
    /\ result = SafetyExit

\* ------------------------------------------------------------------- C36
\* The documents a step appended to the state.
Added(before, after) ==
    SubSeq(Documents(after), Len(Documents(before)) + 1, Len(Documents(after)))

\* The documents are papers of one question, among its first `limit` search
\* results, in rank order.
FirstResultsInOrder(docs, question, limit) ==
    /\ Len(docs) <= limit
    /\ \A i \in 1..Len(docs) :
          /\ docs[i].arxiv_id[1] = question
          /\ docs[i].arxiv_id[2] \in 1..limit
    /\ \A i, j \in 1..Len(docs) : i < j => docs[i].arxiv_id[2] < docs[j].arxiv_id[2]

\* len(documents) <= 2 * current_task_index
WithinTwoPerQuestion(state) ==
    Len(Documents(state)) <= 2 * Get(state, "current_task_index", 0)

\* C36: a Research step adds at most 2 documents (1 in lightweight mode),
\* taken from the first 2 (1) search results of its question and appended in
\* rank order, a paper whose processing failed not being among them; so
\* everywhere len(documents) <= 2 * current_task_index.
C36_DocumentsPerStep ==
    /\ [][ ResearchStepRuns =>
              /\ IsPrefix(Documents(g), Documents(g'))
              /\ Len(Added(g, g')) <= 2
              /\ g.current_task_index < Len(g.plan) =>
                    FirstResultsInOrder(Added(g, g'), g.plan[g.current_task_index + 1],
                                        PapersToProcess(settings.LIGHTWEIGHT_MODE))
              /\ \A i \in (Len(attempts) + 1)..Len(attempts') :
                    ~attempts'[i].ok =>
                        DocumentInfo(attempts'[i].paper) \notin Range(Added(g, g'))
              /\ Len(Added(g, g')) =
                    Cardinality({ i \in (Len(attempts) + 1)..Len(attempts') : attempts'[i].ok }) ]_vars
    /\ [] /\ WithinTwoPerQuestion(g)
          /\ WithinTwoPerQuestion(cur)
          /\ \A s \in DOMAIN sessions : WithinTwoPerQuestion(sessions[s])
          /\ \A s \in DOMAIN ws_sessions : WithinTwoPerQuestion(ws_sessions[s])

\* Both questions of a plan are done: the search of the first returned three
\* papers, of which the first failed and the second was added; the second
\* question added its first two, so three documents stand against index 2.
C36_Witness ==
    /\ g # EmptyDict
    /\ ~settings.LIGHTWEIGHT_MODE
    /\ g.current_task_index = 2
    /\ Len(g.documents) = 3
    /\ Len(attempts) = 4
    /\ ~attempts[1].ok
    /\ g.documents[1].arxiv_id[2] = 2
    /\ g.documents[2].arxiv_id[2] = 1
    /\ g.documents[3].arxiv_id[2] = 2

\* ------------------------------------------------------------------- C37
\* The stored entry says completed and holds the report message of the
\* Write step.
CompletedWithReport(entry) ==
    /\ Get(entry, "status", "unknown") = "completed"
    /\ Get(entry, "messages", << >>) # << >>

\* C37: whenever a poll can look at the store of a streaming run, an entry
\* whose status is completed and whose Write step produced a report has that
\* report in its report field, so that get_session returns it.
C37_CompletedEntryHasReport ==
    (SID \in DOMAIN ws_sessions /\ CompletedWithReport(ws_sessions[SID])) =>
        /\ "report" \in DOMAIN ws_sessions[SID]
        /\ ws_sessions[SID].report = ReportOf(ws_sessions[SID])
        /\ get_session(ws_sessions, SID).report = ReportOf(ws_sessions[SID])

\* ------------------------------------------------------------------- C38
PlanStepRuns == steps'.planner = steps.planner + 1

\* The router asks for the planner exactly when the plan is empty and the
\* state is neither complete nor in error.
AsksForPlanner(state) ==
    /\ ~IsComplete(state)
    /\ Get(state, "status", None) # "error"
    /\ Get(state, "plan", << >>) = << >>

\* What every exit of the Plan step leaves behind: a plan, or the status error.
PlanOrError(state) ==
    \/ state.status = "error"
    \/ state.plan # << >>

\* C38: the router evaluated after a researcher step never answers "planner"
\* (the researcher's edge map has no such target), and evaluated after a
\* planner step it answers "planner" only for an empty plan with status other
\* than error, which no exit of the Plan step leaves behind.
C38_NoWayBackToPlanner ==
    /\ [][ ResearchStepRuns =>
              /\ route_next_step(g') # "planner"
              /\ route_next_step(g') \in DOMAIN ResearcherEdges
              /\ node' \in { "researcher", "writer", "END" } ]_vars
    /\ [][ PlanStepRuns =>
              /\ route_next_step(g') = "planner" <=> AsksForPlanner(g')
              /\ PlanOrError(g')
              /\ route_next_step(g') # "planner"
              /\ node' \in { "researcher", "END" } ]_vars

\* The router was asked after the planner and after each of two researcher
\* steps, and now asks for the writer.
C38_Witness ==
    /\ steps = [planner |-> 1, researcher |-> 2, writer |-> 0]
    /\ Len(g.plan) = 2
    /\ route_next_step(g) = "writer"
    /\ node = "writer"

\* ------------------------------------------------------------------- C39
\* The streaming session's websocket is open: the driver runs and the client
\* has not gone away.
SocketOpen == pc \in { "ws_started", "ws_loop" } /\ channel = "open"

\* C39: while a streaming session's socket is open, a connection for its
\* session id is registered in the ConnectionManager, and the activity events
\* of the Research steps run so far have reached the client.
C39_ActivityEventsReachClient ==
    SocketOpen =>
        /\ SID \in connections
        /\ steps.researcher >= 1 => delivered # << >>

\* ------------------------------------------------------------------- C40
\* Two states agree field by field.
SameFields(a, b) ==
    /\ DOMAIN a = DOMAIN b
    /\ \A k \in DOMAIN a : a[k] = b[k]

\* C40: after every step of a streaming run, the state the driver keeps by
\* merging the updates by hand (documents and logs appended, every other key,
\* messages too, replaced) equals field by field the graph's own state, which
\* the schema's reducers computed (messages, documents and logs concatenated,
\* every other key replaced).
C40_HandMergeEqualsReducers ==
    pc \in { "ws_loop", "ws_done" } =>
        IF pending = << >>
        THEN SameFields(cur, g)
        ELSE SameFields(MergeUpdate(cur, Head(pending).update), g)

\* The run is over after two Research steps that each added a document and a
\* Write step that added the report message.
C40_Witness ==
    /\ pc = "ws_done"
    /\ steps = [planner |-> 1, researcher |-> 2, writer |-> 1]
    /\ Len(cur.documents) = 2
    /\ Len(cur.messages) = 1
    /\ Len(g.messages) = 1
    /\ Len(cur.logs) > 5

====
